---- MODULE Spec2Model ----
(***************************************************************************)
(* Model of the ai-chat-instrumentation backend.                           *)
(*                                                                         *)
(*  Spec      the action-plan service (backend/app/ai_service.py) behind   *)
(*            its HTTP routes (backend/app/routes.py): the in-memory       *)
(*            registry action_plans and the four request handlers.         *)
(*  SpecProp  trace-context extraction (backend/app/sentry_propagator.py)  *)
(*            in the propagator chain of backend/app/otel_config.py.       *)
(*                                                                         *)
(* Scheduling.  The route handlers and the service methods are             *)
(* `async def`, but none of them contains an await other than the route's  *)
(* await of the service coroutine, and every LLM client call               *)
(* (chat.completions.create, generate_content) is a blocking call.  A      *)
(* handler therefore runs on the event loop from its first line to its     *)
(* return or raise without yielding: requests may be in flight together,   *)
(* but their handler bodies are serialised.  Each handler is one action.   *)
(***************************************************************************)
EXTENDS Integers, Sequences, FiniteSets, TLC

VARIABLES provider, langfuse, action_plans, req, resp,
          carrier, given, returned, getter, value_type, raised,
          clock, arrivals, span, frame, disconnected, messages, complexity,
          api_keys, ai_service, handled,
          headers, lookup_key, found,
          race,
          plan_content, token_response, message_texts

vars == <<provider, langfuse, action_plans, req, resp,
          carrier, given, returned, getter, value_type, raised,
          clock, arrivals, span, frame, disconnected, messages, complexity,
          api_keys, ai_service, handled,
          headers, lookup_key, found,
          race,
          plan_content, token_response, message_texts>>

svcVars  == <<provider, langfuse, action_plans, req, resp>>
propVars == <<carrier, given, returned, getter, value_type, raised>>
callVars == <<clock, arrivals, span, frame, disconnected, messages, complexity>>
bootVars == <<api_keys, ai_service, handled>>
lookupVars == <<headers, lookup_key, found>>
histVars == <<race>>
tokenVars == <<plan_content, token_response, message_texts>>

(***************************************************************************)
(* Bounds of the model.                                                    *)
(***************************************************************************)
\* Updates are enabled while the stored version is below MaxVersion.
MaxVersion == 3
\* Wrong-length header segments of 0..MaxShortLen characters are drawn.
MaxShortLen == 2

\* Clients whose requests may be in flight together.
Clients == {"k1", "k2"}
\* The values uuid.uuid4() can return (and the ids a request can name).
UUIDs == {"u1", "u2"}
\* Texts the LLM can answer with.
Contents == {"c1", "c2"}
\* Titles _extract_title derives from the request's template_content.
Titles == {"t1"}

(***************************************************************************)
(* Part 1.  The action-plan service.                                       *)
(***************************************************************************)

\* settings.AI_PROVIDER as AIService.__init__ branches on it.
Providers == {"openai", "groq", "gemini"}

\* SendMessageRequest.flow_type.
FlowTypes == {"chat", "suggestion", "action_plan_creation", "action_plan_edit"}

\* Python's None for an absent id, plan, request or response.
None == "None"

NoPlan == [id |-> None, title |-> None, content |-> None, status |-> None, version |-> 0]

\* ActionPlanModel(id, title, content, status, version).
ActionPlanModel(id, title, content, status, version) ==
    [id |-> id, title |-> title, content |-> content, status |-> status, version |-> version]

NoRequest == [op |-> None, action_plan_id |-> None, flow_type |-> None, title |-> None]

\* The request bodies of the four POST routes.
Requests ==
       { [op |-> "send_message", action_plan_id |-> i, flow_type |-> f, title |-> None] :
             i \in {None, "u1"}, f \in {"chat"} }
  \cup { [op |-> "generate_action_plan", action_plan_id |-> None, flow_type |-> None, title |-> t] :
             t \in Titles }
  \cup { [op |-> o, action_plan_id |-> i, flow_type |-> None, title |-> None] :
             o \in {"update_action_plan", "commit_action_plan"}, i \in UUIDs }

NoResponse == [op |-> None, status_code |-> 0, exc |-> None, llm_calls |-> 0, action_plan |-> NoPlan]

\* What a client gets back from route op: the HTTP status, the exception type
\* behind an error answer, the number of LLM calls the handler issued, and
\* the action_plan field of the response body.
Response(op, status_code, exc, llm_calls, plan) ==
    [op |-> op, status_code |-> status_code, exc |-> exc, llm_calls |-> llm_calls,
     action_plan |-> plan]

\* Exception types an LLM client call can raise.  A ValueError is among them
\* (genai's response.text raises it for a blocked answer).
LLMErrors == {"APIError", "ValueError"}

\* Mutant: the route has no `except ValueError` clause.
StatusWithoutNotFound(exc) == 500

\* The except clauses of the update and commit routes.
StatusNotFoundAware(exc) == IF exc = "ValueError" THEN 404 ELSE 500

\* The except clause of the chat and generate routes.
StatusAny(exc) == 500

\* `action_plan_id not in self.action_plans`.
NotFound(plans, action_plan_id) == action_plan_id \notin DOMAIN plans

\* Mutant: the registry is replaced by one holding the stored plan only.
StoreAlone(plans, key, plan) == [k \in {key} |-> plan]

\* self.action_plans[key] = plan.
Store(plans, key, plan) ==
    [k \in DOMAIN plans \cup {key} |-> IF k = key THEN plan ELSE plans[k]]

\* The plan generate_action_plan builds.
NewPlan(id, title, content) == ActionPlanModel(id, title, content, "draft", 1)

\* Mutant: the update keeps the version it read.
UpdatedPlanSameVersion(current_plan, updated_content) ==
    ActionPlanModel(current_plan.id, current_plan.title, updated_content,
                    "draft", current_plan.version)

\* Mutant: the update restarts the version count below the version it read.
UpdatedPlanDecrement(current_plan, updated_content) ==
    ActionPlanModel(current_plan.id, current_plan.title, updated_content,
                    "draft", current_plan.version - 1)

\* The plan update_action_plan builds from the plan it read.
UpdatedPlan(current_plan, updated_content) ==
    ActionPlanModel(current_plan.id, current_plan.title, updated_content,
                    "draft", current_plan.version + 1)

\* Mutant: a commit of a saved plan makes it a draft again.
CommittedPlanToggle(plan) ==
    [plan EXCEPT !.status = IF @ = "saved" THEN "draft" ELSE "saved"]

\* plan.status = "saved", on the stored object.
CommittedPlan(plan) == [plan EXCEPT !.status = "saved"]

\* The exception that leaves generate_chat_response when the LLM call raised
\* e: the handler calls generation.end(...) unguarded, and generation is None
\* without Langfuse.
ChatFailure(e) == IF langfuse THEN e ELSE "AttributeError"

Idle(c) == req[c] = NoRequest
Handling(c, op) == req[c].op = op

\* A request arrives and waits for the event loop.
Receive(c) ==
    /\ Idle(c)
    /\ \E r \in Requests :
          /\ req' = [req EXCEPT ![c] = r]
          /\ resp' = [resp EXCEPT ![c] = NoResponse]
    /\ UNCHANGED <<provider, langfuse, action_plans, propVars, callVars, bootVars, lookupVars, histVars, tokenVars>>

\* The handler of client c's request returns or raises: the route answers.
Answer(c, status_code, exc, llm_calls, plan) ==
    /\ resp' = [resp EXCEPT ![c] = Response(req[c].op, status_code, exc, llm_calls, plan)]
    /\ req' = [req EXCEPT ![c] = NoRequest]

\* POST /chat/message -> AIService.generate_chat_response.
generate_chat_response(c) ==
    /\ Handling(c, "send_message")
    /\ \E ok \in BOOLEAN, e \in LLMErrors :
          IF ok
          THEN Answer(c, 200, None, 1, NoPlan)
          ELSE Answer(c, StatusAny(ChatFailure(e)), ChatFailure(e), 1, NoPlan)
    /\ UNCHANGED <<provider, langfuse, action_plans, propVars, callVars, bootVars, lookupVars, histVars, tokenVars>>

\* POST /action-plan/generate -> AIService.generate_action_plan.
\* failAt: 0 no failure; 1 the streamed call or its iteration raises;
\* 2 the follow-up token-count call (not issued for gemini) raises.
\* Both calls come before the registry write.
generate_action_plan(c) ==
    /\ Handling(c, "generate_action_plan")
    /\ \E failAt \in 0..2, e \in LLMErrors, content \in Contents :
          LET calls == IF provider = "gemini" \/ failAt = 1 THEN 1 ELSE 2
              fails == failAt = 1 \/ (failAt = 2 /\ provider # "gemini")
          IN  IF fails
              THEN /\ Answer(c, StatusAny(e), e, calls, NoPlan)
                   /\ UNCHANGED action_plans
              ELSE \E id \in UUIDs \ DOMAIN action_plans :
                      LET plan == NewPlan(id, req[c].title, content)
                      IN  /\ action_plans' = Store(action_plans, id, plan)
                          /\ Answer(c, 200, None, calls, plan)
    /\ UNCHANGED <<provider, langfuse, propVars, callVars, bootVars, lookupVars, histVars, tokenVars>>

\* POST /action-plan/update -> AIService.update_action_plan.
\* usage: whether the completion carries a usage object (response.usage is
\* Optional); only the openai branch reads response.usage.total_tokens, and
\* it does so after the registry write.
update_action_plan(c) ==
    /\ Handling(c, "update_action_plan")
    /\ LET id == req[c].action_plan_id
       IN  IF NotFound(action_plans, id)
           THEN /\ Answer(c, StatusNotFoundAware("ValueError"), "ValueError", 0, NoPlan)
                /\ UNCHANGED action_plans
           ELSE /\ action_plans[id].version < MaxVersion
                /\ \E ok \in BOOLEAN, e \in LLMErrors, content \in Contents, usage \in BOOLEAN :
                      LET current_plan == action_plans[id]
                          updated_plan == UpdatedPlan(current_plan, content)
                      IN  IF ~ok
                          THEN /\ Answer(c, StatusNotFoundAware(e), e, 1, NoPlan)
                               /\ UNCHANGED action_plans
                          ELSE /\ action_plans' = Store(action_plans, id, updated_plan)
                               /\ IF provider = "openai" /\ ~usage
                                  THEN Answer(c, StatusNotFoundAware("AttributeError"),
                                                          "AttributeError", 1, NoPlan)
                                  ELSE Answer(c, 200, None, 1, updated_plan)
    /\ UNCHANGED <<provider, langfuse, propVars, callVars, bootVars, lookupVars, histVars, tokenVars>>

\* POST /action-plan/commit -> AIService.commit_action_plan.
commit_action_plan(c) ==
    /\ Handling(c, "commit_action_plan")
    /\ LET id == req[c].action_plan_id
       IN  IF NotFound(action_plans, id)
           THEN /\ Answer(c, StatusNotFoundAware("ValueError"), "ValueError", 0, NoPlan)
                /\ UNCHANGED action_plans
           ELSE LET plan == CommittedPlan(action_plans[id])
                IN  /\ action_plans' = Store(action_plans, id, plan)
                    /\ Answer(c, 200, None, 0, plan)
    /\ UNCHANGED <<provider, langfuse, propVars, callVars, bootVars, lookupVars, histVars, tokenVars>>

\* The propagation variables while the service runs.
PropIdle ==
    /\ carrier = [sentry_trace |-> << >>, traceparent |-> << >>, baggage |-> {}]
    /\ given = [span |-> {}, baggage |-> {}]
    /\ returned = << >>
    /\ getter = "Getter"
    /\ value_type = "list"
    /\ raised = None

\* The module-level `ai_service = AIService()` has been constructed with
\* every API key set, and no request has been counted.
Booted ==
    /\ api_keys = Providers
    /\ ai_service = "AIService"
    /\ handled = 0

\* No two updates of one plan are in flight together.
NoRace == [id |-> None, version |-> 0]

\* The follow-up token-count call has not been reached.
NotReached == [reached |-> FALSE, is_none |-> TRUE, usage |-> << >>]

\* No token accounting is followed: no output, no message texts.
TokensIdle ==
    /\ plan_content = << >>
    /\ token_response = NotReached
    /\ message_texts = << >>

\* No header lookup is followed: no carrier, the propagator's header name
\* as the key, nothing returned.
NotLooked == [called |-> FALSE, none |-> TRUE, values |-> << >>]
\* A carrier that is None, and a carrier that is the dict d.
NoCarrier == [is_none |-> TRUE, dict |-> << >>]
Dict(d) == [is_none |-> FALSE, dict |-> d]
LookupIdle ==
    /\ headers = NoCarrier
    /\ lookup_key = <<"s", "e", "n", "t", "r", "y", "-", "t", "r", "a", "c", "e">>
    /\ found = NotLooked

\* A quotient of two integers, kept exact: Python's float n / d.
Quot(n, d) == [num |-> n, den |-> d]
Zero == Quot(0, 1)

\* No span: nothing started by tracer.start_as_current_span yet.
NoSpan ==
    [name |-> None, open |-> FALSE, attributes |-> << >>, ended |-> 0,
     status |-> "UNSET", exception |-> None]

\* The local variables of an instrumented call before it starts.  An
\* Optional[int] local is a sequence: << >> for None, <<n>> for the int n.
NoFrame ==
    [pc |-> "idle", op |-> None, model |-> None, request_start_time |-> 0,
     ttft |-> << >>, ttlt |-> << >>, chunk_times |-> << >>, chunk_count |-> 0,
     first_chunk_received |-> FALSE, last_chunk_time |-> 0,
     generation_time |-> 0, input_tokens |-> 0, output_tokens |-> 0, total_tokens |-> 0,
     tokens_per_second |-> Zero, mean_time_per_token |-> Zero,
     time_between_chunks_avg |-> 0, time_between_chunks_p95 |-> 0, exc |-> None]

\* The variables of the instrumented call while no call is followed.
CallIdle ==
    /\ clock = 0
    /\ arrivals = << >>
    /\ span = NoSpan
    /\ frame = NoFrame
    /\ disconnected = FALSE
    /\ messages = << >>
    /\ complexity = None

\* AIService.__init__: the provider and the Langfuse client are fixed at
\* construction; the registry starts empty.
Init ==
    /\ provider \in Providers
    /\ langfuse \in BOOLEAN
    /\ action_plans = << >>
    /\ req = [c \in Clients |-> NoRequest]
    /\ resp = [c \in Clients |-> NoResponse]
    /\ PropIdle
    /\ CallIdle
    /\ Booted
    /\ LookupIdle
    /\ race = NoRace
    /\ TokensIdle

Next ==
    \E c \in Clients :
       \/ Receive(c)
       \/ generate_chat_response(c)
       \/ generate_action_plan(c)
       \/ update_action_plan(c)
       \/ commit_action_plan(c)

Spec == Init /\ [][Next]_vars

(***************************************************************************)
(* Claims about the action-plan service (checked under Spec).              *)
(***************************************************************************)

\* The step in which the handler of client c's request op returns or raises.
Handled(c, op) == req[c].op = op /\ req'[c] = NoRequest

Succeeded(c) == resp'[c].status_code = 200

\* C1: lifecycle.  A successful generate stores a new plan with version 1 and
\* status draft; a successful update of an id stores a plan with the same
\* id, status draft and the replaced version plus one; a commit sets
\* status saved and keeps the version.
C1_Lifecycle ==
    [][\A c \in Clients :
         /\ (Handled(c, "generate_action_plan") /\ Succeeded(c)) =>
               LET p == resp'[c].action_plan
               IN  /\ p.id \notin DOMAIN action_plans
                   /\ p.id \in DOMAIN action_plans'
                   /\ action_plans'[p.id] = p
                   /\ p.version = 1
                   /\ p.status = "draft"
         /\ (Handled(c, "update_action_plan") /\ Succeeded(c)) =>
               LET id == req[c].action_plan_id
               IN  /\ id \in DOMAIN action_plans
                   /\ action_plans'[id].id = id
                   /\ action_plans'[id].status = "draft"
                   /\ action_plans'[id].version = action_plans[id].version + 1
         /\ (Handled(c, "commit_action_plan") /\ Succeeded(c)) =>
               LET id == req[c].action_plan_id
               IN  /\ id \in DOMAIN action_plans
                   /\ action_plans'[id].status = "saved"
                   /\ action_plans'[id].version = action_plans[id].version
      ]_vars

\* C1 witness: a plan that was generated, updated twice and then committed.
C1_Witness ==
    \E id \in DOMAIN action_plans :
       /\ action_plans[id].version = 3
       /\ action_plans[id].status = "saved"
       /\ \E c \in Clients : resp[c].op = "commit_action_plan" /\ resp[c].status_code = 200

\* C2: update and commit of an id that is no key of the registry end with
\* the not-found error (ValueError, 404), issue no LLM call and leave the
\* registry as it was.
C2_UnknownId ==
    [][\A c \in Clients :
         ( /\ Handled(c, "update_action_plan") \/ Handled(c, "commit_action_plan")
           /\ req[c].action_plan_id \notin DOMAIN action_plans ) =>
               /\ resp'[c].status_code = 404
               /\ resp'[c].exc = "ValueError"
               /\ resp'[c].llm_calls = 0
               /\ action_plans' = action_plans
      ]_vars

\* C2 witness: with a plan stored, an update and a commit of another id were
\* both answered 404 without an LLM call.
C2_Witness ==
    /\ DOMAIN action_plans = {"u1"}
    /\ \E c, d \in Clients :
          /\ resp[c].op = "update_action_plan"
          /\ resp[c].status_code = 404 /\ resp[c].llm_calls = 0
          /\ resp[d].op = "commit_action_plan"
          /\ resp[d].status_code = 404 /\ resp[d].llm_calls = 0

\* C3 (as claimed): whenever generate or update is answered with an error,
\* the registry is as it was before the call.
C3_FailureLeavesRegistry ==
    [][\A c \in Clients :
         ( /\ Handled(c, "generate_action_plan") \/ Handled(c, "update_action_plan")
           /\ ~Succeeded(c) ) => action_plans' = action_plans
      ]_vars

\* C4 (as claimed): once a plan is saved, no request changes its version.
C4_SavedIsTerminal ==
    [][\A id \in DOMAIN action_plans :
         action_plans[id].status = "saved" =>
            /\ id \in DOMAIN action_plans'
            /\ action_plans'[id].version = action_plans[id].version
      ]_vars

\* C5: every stored version is at least 1 and no step lowers the version of
\* a stored plan, also while several updates of the id are in flight.
C5_VersionMonotonic ==
    [][/\ \A id \in DOMAIN action_plans' : action_plans'[id].version >= 1
       /\ \A id \in DOMAIN action_plans :
             /\ id \in DOMAIN action_plans'
             /\ action_plans'[id].version >= action_plans[id].version
      ]_vars

\* C5 witness: two updates of the same id are in flight together on a plan
\* that an earlier update already raised to version 2.
C5_Witness ==
    \E id \in DOMAIN action_plans :
       /\ action_plans[id].version = 2
       /\ \A c \in Clients :
             req[c].op = "update_action_plan" /\ req[c].action_plan_id = id

(***************************************************************************)
(* Part 2.  Trace-context extraction.                                      *)
(*                                                                         *)
(* A header value is a sequence of one-character strings.  An integer is   *)
(* the record [neg, digits]: its sign and its base-16 digits, most         *)
(* significant first, without leading zeros (Python integers are           *)
(* unbounded; a 128-bit id does not fit a TLC integer).                    *)
(***************************************************************************)

\* Widths of the ids in hexadecimal characters.
TraceIdHexLen == 32
SpanIdHexLen == 16

HexChars == <<"0", "1", "2", "3", "4", "5", "6", "7", "8", "9",
              "a", "b", "c", "d", "e", "f">>
UpperHexChars == <<"0", "1", "2", "3", "4", "5", "6", "7", "8", "9",
                   "A", "B", "C", "D", "E", "F">>
Range(q) == {q[i] : i \in DOMAIN q}
HexDigits == Range(HexChars) \cup Range(UpperHexChars)
Whitespace == {" ", "\t"}

\* The value of a hexadecimal digit, in either case.
HexVal(ch) ==
    (CHOOSE i \in 1..16 : HexChars[i] = ch \/ UpperHexChars[i] = ch) - 1

\* str.lower() on the characters of a header segment.
LowerChar(ch) ==
    IF \E i \in 1..16 : UpperHexChars[i] = ch
    THEN HexChars[CHOOSE i \in 1..16 : UpperHexChars[i] = ch]
    ELSE IF ch = "X" THEN "x" ELSE ch
Lower(s) == [i \in DOMAIN s |-> LowerChar(s[i])]

Rep(ch, n) == [i \in 1..n |-> ch]

\* str.split("-").
RECURSIVE SplitFrom(_, _, _)
SplitFrom(s, i, cur) ==
    IF i > Len(s) THEN <<cur>>
    ELSE IF s[i] = "-" THEN <<cur>> \o SplitFrom(s, i + 1, << >>)
    ELSE SplitFrom(s, i + 1, Append(cur, s[i]))
Split(s) == SplitFrom(s, 1, << >>)

RECURSIVE LStrip(_)
LStrip(s) == IF s # << >> /\ s[1] \in Whitespace THEN LStrip(Tail(s)) ELSE s
RECURSIVE RStrip(_)
RStrip(s) ==
    IF s # << >> /\ s[Len(s)] \in Whitespace THEN RStrip(SubSeq(s, 1, Len(s) - 1)) ELSE s
Strip(s) == RStrip(LStrip(s))

RECURSIVE DropZeros(_)
DropZeros(ds) == IF ds # << >> /\ ds[1] = 0 THEN DropZeros(Tail(ds)) ELSE ds

IsUnderscore(ch) == ch = "_"
NotUnderscore(ch) == ch # "_"

\* Mutant: the id is read as a decimal number (int(x) instead of int(x, 16)).
IntBase10(seg) ==
    LET ok == seg # << >> /\ \A i \in DOMAIN seg : seg[i] \in Range(SubSeq(HexChars, 1, 10))
    IN  [ok |-> ok, neg |-> FALSE,
         digits |-> IF ok THEN DropZeros([i \in DOMAIN seg |-> HexVal(seg[i])]) ELSE << >>]

\* int(seg, 16) as Python reads it: surrounding whitespace is stripped, a
\* sign and a 0x/0X prefix are accepted, and single underscores may separate
\* the digits.  ok = FALSE stands for the ValueError.
IntBase16(seg) ==
    LET s1 == Strip(seg)
        signed == s1 # << >> /\ s1[1] \in {"+", "-"}
        s2 == IF signed THEN Tail(s1) ELSE s1
        prefixed == Len(s2) >= 2 /\ s2[1] = "0" /\ s2[2] \in {"x", "X"}
        s3 == IF prefixed THEN SubSeq(s2, 3, Len(s2)) ELSE s2
        s4 == IF prefixed /\ s3 # << >> /\ s3[1] = "_" THEN Tail(s3) ELSE s3
        ok == /\ s4 # << >>
              /\ \A i \in DOMAIN s4 : s4[i] \in HexDigits \cup {"_"}
              /\ s4[1] # "_"
              /\ s4[Len(s4)] # "_"
              /\ \A i \in 1..(Len(s4) - 1) : ~(s4[i] = "_" /\ s4[i + 1] = "_")
        ds == SelectSeq(s4, NotUnderscore)
    IN  [ok |-> ok,
         neg |-> ok /\ signed /\ s1[1] = "-" /\ DropZeros([i \in DOMAIN ds |-> HexVal(ds[i])]) # << >>,
         digits |-> IF ok THEN DropZeros([i \in DOMAIN ds |-> HexVal(ds[i])]) ELSE << >>]

\* format(n, '0<width>x'): lower-case digits, zero-padded to the width.
FormatHex(n, width) ==
    LET ds == IF n.digits = << >> THEN <<"0">>
              ELSE [i \in DOMAIN n.digits |-> HexChars[n.digits[i] + 1]]
        sign == IF n.neg THEN <<"-">> ELSE << >>
        pad == width - Len(ds) - Len(sign)
    IN  sign \o Rep("0", IF pad > 0 THEN pad ELSE 0) \o ds

\* SpanContext(trace_id, span_id, is_remote, trace_flags, trace_state).
SpanContext(trace_id, span_id, is_remote, trace_flags) ==
    [trace_id |-> trace_id, span_id |-> span_id, is_remote |-> is_remote,
     trace_flags |-> trace_flags]

\* Mutant: every flag segment other than 0 counts as sampled.
SentrySpanContextUnlessZero(t, s, sampled) ==
    SpanContext(t, s, TRUE, IF sampled = <<"0">> THEN 0 ELSE 1)

\* The SpanContext SentryPropagator builds from the parsed ids and the flag
\* segment.
SentrySpanContext(t, s, sampled) ==
    SpanContext(t, s, TRUE, IF sampled = <<"1">> THEN 1 ELSE 0)

\* trace.set_span_in_context(NonRecordingSpan(span_context), context): the
\* span key of the context is replaced, its other keys are kept.
set_span_in_context(span_context, ctx) == [ctx EXCEPT !.span = {span_context}]

\* getter.get(carrier, key): the list of the header's values; the empty
\* list stands for the header being absent (None), both are falsy.
Get(c, key) == c[key]

\* SentryPropagator.extract(carrier, context, getter), a getter given.
SentryExtract(c, ctx) ==
    LET sentry_trace == Get(c, "sentry_trace")
    IN  IF sentry_trace = << >> THEN ctx
        ELSE LET parts == Split(sentry_trace[1])
             IN  IF Len(parts) # 3 THEN ctx
                 ELSE LET trace_id == IntBase16(parts[1])
                          span_id == IntBase16(parts[2])
                      IN  IF ~trace_id.ok \/ ~span_id.ok THEN ctx
                          ELSE set_span_in_context(
                                  SentrySpanContext([neg |-> trace_id.neg, digits |-> trace_id.digits],
                                                    [neg |-> span_id.neg, digits |-> span_id.digits],
                                                    parts[3]),
                                  ctx)

\* What a call of extract leaves its caller with: the exception it raised
\* (None for a normal return) and the context it returned.
Outcome(exc, ctx) == [exc |-> exc, context |-> ctx]

\* The Python types a sentry-trace value can have.
ValueTypes == {"list", "str", "tuple"}

\* SentryPropagator.extract(carrier, context, getter) called with getter g
\* (None when the argument is omitted) on a carrier whose sentry-trace value
\* has type vt.  Without a getter, `getter = self._default_getter` binds a
\* plain function and `getter.get` raises AttributeError before the carrier
\* is read.  A value that is neither a list nor a str has no split method;
\* the try block catches ValueError and IndexError only.
extract(c, ctx, g, vt) ==
    IF g = None THEN Outcome("AttributeError", ctx)
    ELSE IF Get(c, "sentry_trace") = << >> THEN Outcome(None, ctx)
    ELSE IF vt \notin {"list", "str"} THEN Outcome("AttributeError", ctx)
    ELSE Outcome(None, SentryExtract(c, ctx))

IsLowerHex(s, n) == Len(s) = n /\ \A i \in DOMAIN s : s[i] \in Range(HexChars)

\* TraceContextTextMapPropagator.extract (opentelemetry-api): the header
\* must match  ^[ \t]*(hex{2})-(hex{32})-(hex{16})-(hex{2})(-.*)?[ \t]*$  in
\* lower case; all-zero ids, version ff and a version-00 header with
\* trailing parts are ignored.  A valid header sets the span of the context
\* it is given, whether or not that context already holds one.
TraceContextExtract(c, ctx) ==
    LET header == Get(c, "traceparent")
    IN  IF header = << >> THEN ctx
        ELSE LET parts == Split(Strip(header[1]))
             IN  IF \/ Len(parts) < 4
                    \/ ~IsLowerHex(parts[1], 2)
                    \/ ~IsLowerHex(parts[2], TraceIdHexLen)
                    \/ ~IsLowerHex(parts[3], SpanIdHexLen)
                    \/ ~IsLowerHex(parts[4], 2)
                 THEN ctx
                 ELSE IF \/ parts[2] = Rep("0", TraceIdHexLen)
                         \/ parts[3] = Rep("0", SpanIdHexLen)
                         \/ (parts[1] = <<"0", "0">> /\ Len(parts) > 4)
                         \/ parts[1] = <<"f", "f">>
                 THEN ctx
                 ELSE set_span_in_context(
                         SpanContext([neg |-> FALSE, digits |-> IntBase16(parts[2]).digits],
                                     [neg |-> FALSE, digits |-> IntBase16(parts[3]).digits],
                                     TRUE, HexVal(parts[4][2]) % 2),
                         ctx)

\* W3CBaggagePropagator.extract (opentelemetry-api): the entries of the
\* baggage header are added to the context's baggage; the span is not
\* touched.  The header is held parsed, as its set of <<key, value>> pairs.
BaggageExtract(c, ctx) ==
    LET entries == Get(c, "baggage")
        keys == {e[1] : e \in entries}
    IN  [ctx EXCEPT !.baggage = {b \in ctx.baggage : b[1] \notin keys} \cup entries]

\* Mutant: the standard propagator is consulted before SentryPropagator.
PropagatorsSentryLast ==
    <<"TraceContextTextMapPropagator", "W3CBaggagePropagator", "SentryPropagator">>

\* The list setup_otel hands to CompositeHTTPPropagator.
Propagators ==
    <<"SentryPropagator", "TraceContextTextMapPropagator", "W3CBaggagePropagator">>

\* CompositePropagator.extract (opentelemetry-api) calls the propagators in
\* list order, each on the context the one before returned.
Current == IF returned = << >> THEN given ELSE returned[Len(returned)]
Turn(name) == Len(returned) < Len(Propagators) /\ Propagators[Len(returned) + 1] = name

ExtractSentry ==
    /\ Turn("SentryPropagator")
    /\ returned' = Append(returned, SentryExtract(carrier, Current))
    /\ UNCHANGED <<carrier, given, getter, value_type, raised, svcVars, callVars, bootVars, lookupVars, histVars, tokenVars>>

ExtractTraceContext ==
    /\ Turn("TraceContextTextMapPropagator")
    /\ returned' = Append(returned, TraceContextExtract(carrier, Current))
    /\ UNCHANGED <<carrier, given, getter, value_type, raised, svcVars, callVars, bootVars, lookupVars, histVars, tokenVars>>

ExtractBaggage ==
    /\ Turn("W3CBaggagePropagator")
    /\ returned' = Append(returned, BaggageExtract(carrier, Current))
    /\ UNCHANGED <<carrier, given, getter, value_type, raised, svcVars, callVars, bootVars, lookupVars, histVars, tokenVars>>

(***************************************************************************)
(* The inbound headers drawn.                                              *)
(***************************************************************************)

\* Characters put into an id segment: hex digits of both cases, a letter
\* that is no hex digit, and the characters int(x, 16) treats specially.
Alphabet == {"0", "a", "A", "g", "x", "+", "_", " "}
Fill == {"0", "a"}

\* Id segments of the right width with one character replaced.
Altered(width) ==
    { [Rep(f, width) EXCEPT ![p] = d] : f \in Fill, p \in {1, 2, width}, d \in Alphabet }
\* Id segments of a wrong width.
WrongLen(width) ==
    { Rep(f, n) : f \in Fill, n \in (0..MaxShortLen) \cup {width - 1, width + 1} }
\* Id segments of the right width and all hex digits.
Good(width) == { Rep(f, width) : f \in Fill }

Join(parts) ==
    LET RECURSIVE J(_)
        J(i) == IF i > Len(parts) THEN << >>
                ELSE (IF i > 1 THEN <<"-">> ELSE << >>) \o parts[i] \o J(i + 1)
    IN  J(1)

Flags == { <<"0">>, <<"1">> }
OddFlags == { << >>, <<"2">>, <<"t", "r", "u", "e">> }

\* sentry-trace values: at most one id segment altered, or both of a wrong
\* width; other flag segments and other segment counts on good ids.
SentryTraces ==
       { Join(<<t, s, f>>) : t \in Altered(TraceIdHexLen) \cup WrongLen(TraceIdHexLen),
                             s \in Good(SpanIdHexLen), f \in Flags }
  \cup { Join(<<t, s, f>>) : t \in Good(TraceIdHexLen),
                             s \in Altered(SpanIdHexLen) \cup WrongLen(SpanIdHexLen), f \in Flags }
  \cup { Join(<<t, s, f>>) : t \in WrongLen(TraceIdHexLen), s \in WrongLen(SpanIdHexLen),
                             f \in {<<"1">>} }
  \cup { Join(<<t, s, f>>) : t \in Good(TraceIdHexLen), s \in Good(SpanIdHexLen), f \in OddFlags }
  \cup UNION { { << >>, t, Join(<<t, s>>), Join(<<t, s, <<"1">>, <<"1">> >>) } :
                             t \in Good(TraceIdHexLen), s \in Good(SpanIdHexLen) }

\* traceparent values: valid with the trace id of a sentry-trace above and
\* another span id, valid with other ids, and three the standard rejects.
TraceParents ==
    { Join(<<v, t, s, <<"0", "1">> >>) :
         v \in {<<"0", "0">>}, t \in {Rep("a", TraceIdHexLen), Rep("c", TraceIdHexLen)},
         s \in {Rep("b", SpanIdHexLen)} }
  \cup { Join(<<<<"f", "f">>, Rep("a", TraceIdHexLen), Rep("b", SpanIdHexLen), <<"0", "1">> >>),
         Join(<<<<"0", "0">>, Rep("0", TraceIdHexLen), Rep("b", SpanIdHexLen), <<"0", "0">> >>),
         Join(<<<<"0", "0">>, Rep("A", TraceIdHexLen), Rep("b", SpanIdHexLen), <<"0", "1">> >>) }

Baggages == { {}, {<<"sentry-environment", "test">>} }

Carriers ==
    [ sentry_trace : {<< >>} \cup { <<h>> : h \in SentryTraces },
      traceparent : {<< >>} \cup { <<h>> : h \in TraceParents },
      baggage : Baggages ]

\* Contexts extract can be handed: the empty one, and one that already
\* holds a parent and a baggage entry.
GivenContexts ==
    { [span |-> {}, baggage |-> {}],
      [span |-> {SpanContext([neg |-> FALSE, digits |-> <<14>>], [neg |-> FALSE, digits |-> <<13>>],
                             TRUE, 0)},
       baggage |-> {<<"sentry-environment", "prod">>}] }

InitProp ==
    /\ carrier \in Carriers
    /\ given \in GivenContexts
    /\ returned = << >>
    /\ getter = "Getter"
    /\ value_type = "list"
    /\ raised = None
    /\ provider = "openai"
    /\ langfuse = FALSE
    /\ action_plans = << >>
    /\ req = [c \in Clients |-> NoRequest]
    /\ resp = [c \in Clients |-> NoResponse]
    /\ CallIdle
    /\ Booted
    /\ LookupIdle
    /\ race = NoRace
    /\ TokensIdle

NextProp == ExtractSentry \/ ExtractTraceContext \/ ExtractBaggage

SpecProp == InitProp /\ [][NextProp]_vars

(***************************************************************************)
(* SpecExtract: SentryPropagator.extract called on its own, with or        *)
(* without a getter, on a sentry-trace value of any of the value types.    *)
(***************************************************************************)

\* Whether extract is still to be called.
NotCalled == returned = << >> /\ raised = None

ExtractDirect ==
    /\ NotCalled
    /\ raised' = extract(carrier, given, getter, value_type).exc
    /\ returned' = IF raised' = None
                   THEN <<extract(carrier, given, getter, value_type).context>>
                   ELSE << >>
    /\ UNCHANGED <<carrier, given, getter, value_type, svcVars, callVars, bootVars, lookupVars, histVars, tokenVars>>

InitExtract ==
    /\ carrier \in [ sentry_trace : {<< >>} \cup { <<h>> : h \in SentryTraces },
                     traceparent : {<< >>}, baggage : {{}} ]
    /\ given \in GivenContexts
    /\ getter \in {None, "Getter"}
    /\ value_type \in ValueTypes
    /\ returned = << >>
    /\ raised = None
    /\ provider = "openai"
    /\ langfuse = FALSE
    /\ action_plans = << >>
    /\ req = [c \in Clients |-> NoRequest]
    /\ resp = [c \in Clients |-> NoResponse]
    /\ CallIdle
    /\ Booted
    /\ LookupIdle
    /\ race = NoRace
    /\ TokensIdle

NextExtract == ExtractDirect

SpecExtract == InitExtract /\ [][NextExtract]_vars

(***************************************************************************)
(* Claims about trace-context extraction (checked under SpecProp).         *)
(***************************************************************************)

\* Where SentryPropagator stands in the chain, what it was given and what
\* it returned.
SentryAt == CHOOSE i \in 1..Len(Propagators) : Propagators[i] = "SentryPropagator"
SentryDone == Len(returned) >= SentryAt
SentryGiven == IF SentryAt = 1 THEN given ELSE returned[SentryAt - 1]
SentryReturned == returned[SentryAt]
ChainDone == Len(returned) = Len(Propagators)
Final == returned[Len(returned)]

HeaderPresent == carrier.sentry_trace # << >>
SentryParts == Split(carrier.sentry_trace[1])
IsHex(s, n) == Len(s) = n /\ \A i \in DOMAIN s : s[i] \in HexDigits
HasNonHex(s) == \E i \in DOMAIN s : s[i] \notin HexDigits

\* <32 hex>-<16 hex>-<0|1>.
WellFormedSentry ==
    /\ HeaderPresent
    /\ Len(SentryParts) = 3
    /\ IsHex(SentryParts[1], TraceIdHexLen)
    /\ IsHex(SentryParts[2], SpanIdHexLen)
    /\ SentryParts[3] \in Flags

TraceParentParts == Split(carrier.traceparent[1])
\* A traceparent the W3C format accepts: 00-<32 hex>-<16 hex>-<2 hex>, lower
\* case, ids not all zero.
ValidTraceParent ==
    /\ carrier.traceparent # << >>
    /\ Len(TraceParentParts) = 4
    /\ TraceParentParts[1] = <<"0", "0">>
    /\ IsLowerHex(TraceParentParts[2], TraceIdHexLen)
    /\ IsLowerHex(TraceParentParts[3], SpanIdHexLen)
    /\ IsLowerHex(TraceParentParts[4], 2)
    /\ TraceParentParts[2] # Rep("0", TraceIdHexLen)
    /\ TraceParentParts[3] # Rep("0", SpanIdHexLen)

\* C6 (as claimed): for every <32 hex>-<16 hex>-<0|1> value, extract returns
\* a context whose span reference is remote, whose ids formatted as 32 and 16
\* hex digits equal the header's segments, and whose sampled flag is set
\* exactly when the flag segment is 1.
C6_RoundTripExact ==
    (SentryDone /\ WellFormedSentry) =>
        \E sc \in SentryReturned.span :
           /\ SentryReturned.span = {sc}
           /\ sc.is_remote
           /\ FormatHex(sc.trace_id, TraceIdHexLen) = SentryParts[1]
           /\ FormatHex(sc.span_id, SpanIdHexLen) = SentryParts[2]
           /\ (sc.trace_flags = 1) <=> (SentryParts[3] = <<"1">>)

\* C6 (amended): as above, the formatted ids equal the header's segments
\* in lower case.
C6_RoundTrip ==
    (SentryDone /\ WellFormedSentry) =>
        \E sc \in SentryReturned.span :
           /\ SentryReturned.span = {sc}
           /\ sc.is_remote
           /\ FormatHex(sc.trace_id, TraceIdHexLen) = Lower(SentryParts[1])
           /\ FormatHex(sc.span_id, SpanIdHexLen) = Lower(SentryParts[2])
           /\ (sc.trace_flags = 1) <=> (SentryParts[3] = <<"1">>)

\* C6 witness: a sampled, well-formed value with an upper-case digit was
\* decoded into a context that held another parent before.
C6_Witness ==
    /\ SentryDone /\ WellFormedSentry
    /\ "A" \in Range(SentryParts[1])
    /\ SentryParts[3] = <<"1">>
    /\ given.span # {}
    /\ \E sc \in SentryReturned.span : sc.trace_flags = 1 /\ sc \notin given.span

\* C7 (as claimed): a value whose trace-id segment is not exactly 32 hex
\* characters, or whose span-id segment is not exactly 16, yields no parent:
\* extract returns the context it was given.
C7_WrongWidthDiscarded ==
    ( /\ SentryDone /\ HeaderPresent
      /\ ~( /\ Len(SentryParts) >= 2
            /\ IsHex(SentryParts[1], TraceIdHexLen)
            /\ IsHex(SentryParts[2], SpanIdHexLen) ) )
    => SentryReturned = SentryGiven

\* C8 (as claimed): an absent header, a value that does not split into
\* exactly 3 segments, or an id segment holding a character that is no hex
\* digit makes extract return the context it was given.
C8_MalformedReturnsGiven ==
    ( /\ SentryDone
      /\ \/ ~HeaderPresent
         \/ Len(SentryParts) # 3
         \/ HasNonHex(SentryParts[1])
         \/ HasNonHex(SentryParts[2]) )
    => SentryReturned = SentryGiven

C10_AgreementAndFallback ==
    ChainDone =>
       /\ ( /\ WellFormedSentry /\ ValidTraceParent
            /\ Lower(SentryParts[1]) = TraceParentParts[2] ) =>
               \E sc \in Final.span :
                  /\ Final.span = {sc}
                  /\ FormatHex(sc.trace_id, TraceIdHexLen) = TraceParentParts[2]
       /\ ( ValidTraceParent /\ ~WellFormedSentry ) =>
               \E sc \in Final.span :
                  /\ Final.span = {sc}
                  /\ FormatHex(sc.trace_id, TraceIdHexLen) = TraceParentParts[2]
                  /\ FormatHex(sc.span_id, SpanIdHexLen) = TraceParentParts[3]

\* C10 witness: a malformed sentry-trace that SentryPropagator nevertheless
\* decoded, a valid traceparent, and the chain's parent is the traceparent's.
C10_Witness ==
    /\ ChainDone /\ ValidTraceParent
    /\ HeaderPresent /\ ~WellFormedSentry
    /\ SentryReturned.span # {} /\ SentryReturned.span # given.span
    /\ \E sc \in Final.span : FormatHex(sc.span_id, SpanIdHexLen) = TraceParentParts[3]

\* C11 (as claimed): extract never raises to its caller, whatever the
\* carrier, the type of the sentry-trace value, and whether or not a getter
\* is passed.
C11_NeverRaises == raised = None

(***************************************************************************)
(* Part 3.  The instrumented LLM call.                                     *)
(*                                                                         *)
(* SpecCall follows one call of generate_action_plan (or of                *)
(* generate_chat_response) through its span: the span is opened, the       *)
(* blocking LLM call delivers its chunks while the wall clock advances,    *)
(* the metrics are computed and attached, and the `with` block is left.    *)
(* The handler never yields to the event loop, so nothing else of the      *)
(* service runs between these steps; a client that disconnects meanwhile   *)
(* cannot interrupt it.                                                    *)
(***************************************************************************)

\* Clock ticks per millisecond: time.time() is finer than the whole
\* milliseconds the handler keeps.
TicksPerMs == 2
\* Chunks a stream delivers at most.
MaxChunks == 3
\* Ticks that pass at most while the handler waits for the LLM once.
MaxDelay == 5
\* Output tokens counted at most.
MaxTokens == 2

\* Ticks by which the clock moves while the handler waits: time.time()
\* reads the wall clock, which the system may set back.
Delays == {-1, 0, TicksPerMs, MaxDelay}

\* int(n / d) for d > 0: truncation toward zero.
IntTrunc(n, d) == IF n >= 0 THEN n \div d ELSE -((-n) \div d)

\* int((a - b) * 1000) for two clock readings.
Millis(a, b) == IntTrunc(a - b, TicksPerMs)

RECURSIVE Sum(_)
Sum(q) == IF q = << >> THEN 0 ELSE Head(q) + Sum(Tail(q))

\* Truth value of an Optional[int]: None and 0 are false.
Truthy(x) == x # << >> /\ x[1] # 0
\* `x or 0`.
OrZero(x) == IF Truthy(x) THEN x[1] ELSE 0

\* round(q, 2), in hundredths (ties to even, on the exact quotient).
Round2(q) ==
    LET n == IF q.den > 0 THEN q.num * 100 ELSE -(q.num * 100)
        d == IF q.den > 0 THEN q.den ELSE -q.den
        fl == n \div d
        r == n % d
    IN  Quot(IF 2 * r > d \/ (2 * r = d /\ fl % 2 = 1) THEN fl + 1 ELSE fl, 100)

\* Mutant: both thresholds of a class must be met.
ComplexityBothThresholds(msgs) ==
    IF Sum(msgs) < 500 /\ Len(msgs) <= 2 THEN "simple"
    ELSE IF Sum(msgs) < 2000 /\ Len(msgs) <= 5 THEN "medium"
    ELSE "high"

\* _calculate_complexity(messages); a message is held as the length of its
\* content.
calculate_complexity(msgs) ==
    LET total_length == Sum(msgs)
        message_count == Len(msgs)
    IN  IF total_length < 500 \/ message_count <= 2 THEN "simple"
        ELSE IF total_length < 2000 \/ message_count <= 5 THEN "medium"
        ELSE "high"

\* settings.DEFAULT_MODEL values, one with "gpt-4" in its name.
Models == {"gpt-4-turbo-preview", "llama-3.1-8b-instant"}
\* 8000 if "gpt-4" in self.model else 4000.
context_window_size(model) == IF model = "gpt-4-turbo-preview" THEN 8000 ELSE 4000

\* Mutant: an attribute whose value is False is not attached.
SetAttributesUnlessFalse(sp, kvs) ==
    [sp EXCEPT !.attributes = @ \o SelectSeq(kvs, LAMBDA kv : kv[1] # "ai.cache_hit")]

\* A run of span.set_attribute(key, value) calls (or the attributes= of the
\* span's start): the attachments are kept in call order.
set_attributes(sp, kvs) == [sp EXCEPT !.attributes = @ \o kvs]

\* tracer.start_as_current_span(name, attributes=...).
start_span(name, kvs) ==
    set_attributes([name |-> name, open |-> TRUE, attributes |-> << >>,
                    ended |-> 0, status |-> "UNSET", exception |-> None], kvs)

\* Mutant: an exception leaves the block without the span being ended.
EndSpanOnReturnOnly(sp, exc) ==
    IF exc = None THEN [sp EXCEPT !.open = FALSE, !.ended = @ + 1]
    ELSE [sp EXCEPT !.status = "ERROR", !.exception = exc]

\* Leaving the `with` block: the span is ended; an exception passing
\* through is recorded on it and marks it as errored.
end_span(sp, exc) ==
    [sp EXCEPT !.open = FALSE, !.ended = @ + 1,
               !.status = IF exc = None THEN sp.status ELSE "ERROR",
               !.exception = exc]

\* The attributes generate_action_plan passes when it opens its span.
GenerationStartAttributes(model) ==
    << <<"ai.provider", provider>>,
       <<"ai.model", model>>,
       <<"ai.temperature", Quot(7, 10)>>,
       <<"ai.max_tokens", 2000>>,
       <<"ai.streaming_enabled", TRUE>>,
       <<"ai.prompt_length", Sum(messages)>>,
       <<"ai.prompt_complexity", calculate_complexity(messages)>>,
       <<"ai.message_count", Len(messages)>>,
       <<"flow.type", "action_plan_generation">> >>

InCall == frame.pc \in {"calling", "streamed"}

\* generate_action_plan up to the LLM call: the span is opened and the
\* timing trackers are initialised.
StartGeneration ==
    /\ frame.pc = "idle"
    /\ \E model \in Models :
          /\ span' = start_span("ai.action_plan.generation", GenerationStartAttributes(model))
          /\ frame' = [NoFrame EXCEPT !.pc = "calling", !.op = "generate_action_plan",
                                      !.model = model,
                                      !.request_start_time = clock,
                                      !.last_chunk_time = clock]
    /\ UNCHANGED <<clock, arrivals, disconnected, messages, complexity, svcVars, propVars, bootVars, lookupVars, histVars, tokenVars>>

\* One iteration of `for chunk in response` (openai, groq).
ReceiveChunk ==
    /\ frame.pc = "calling" /\ frame.op = "generate_action_plan"
    /\ provider # "gemini"
    /\ frame.chunk_count < MaxChunks
    /\ \E d \in Delays :
          LET chunk_received_time == clock + d
          IN  /\ clock' = chunk_received_time
              /\ arrivals' = Append(arrivals, chunk_received_time)
              /\ frame' =
                   IF ~frame.first_chunk_received
                   THEN [frame EXCEPT
                           !.ttft = <<Millis(chunk_received_time, frame.request_start_time)>>,
                           !.first_chunk_received = TRUE,
                           !.last_chunk_time = chunk_received_time,
                           !.chunk_count = @ + 1]
                   ELSE [frame EXCEPT
                           !.chunk_times = Append(@, Millis(chunk_received_time, frame.last_chunk_time)),
                           !.last_chunk_time = chunk_received_time,
                           !.chunk_count = @ + 1]
    /\ UNCHANGED <<span, disconnected, messages, complexity, svcVars, propVars, bootVars, lookupVars, histVars, tokenVars>>

\* The stream is exhausted: the loop ends and ttlt is taken.
EndOfStream ==
    /\ frame.pc = "calling" /\ frame.op = "generate_action_plan"
    /\ provider # "gemini"
    /\ frame' = [frame EXCEPT !.pc = "streamed",
                              !.ttlt = <<Millis(frame.last_chunk_time, frame.request_start_time)>>]
    /\ UNCHANGED <<clock, arrivals, span, disconnected, messages, complexity, svcVars, propVars, bootVars, lookupVars, histVars, tokenVars>>

\* gemini: one blocking generate_content call; ttft is approximated as a
\* tenth of the elapsed time.
GenerateContent ==
    /\ frame.pc = "calling" /\ frame.op = "generate_action_plan"
    /\ provider = "gemini"
    /\ \E d \in Delays :
          /\ clock' = clock + d
          /\ frame' = [frame EXCEPT
                         !.pc = "streamed",
                         !.ttft = <<IntTrunc(clock + d - frame.request_start_time, TicksPerMs * 10)>>,
                         !.ttlt = <<Millis(clock + d, frame.request_start_time)>>,
                         !.chunk_count = 1]
    /\ UNCHANGED <<arrivals, span, disconnected, messages, complexity, svcVars, propVars, bootVars, lookupVars, histVars, tokenVars>>

\* generation_time = ttlt - ttft if ttft and ttlt else ttlt.
generation_time(ttft, ttlt) ==
    IF Truthy(ttft) /\ Truthy(ttlt) THEN ttlt[1] - ttft[1] ELSE ttlt[1]

\* output_tokens / (generation_time / 1000) if generation_time > 0 else 0.
tokens_per_second(output_tokens, gen_time) ==
    IF gen_time > 0 THEN Quot(output_tokens * 1000, gen_time) ELSE Zero

\* generation_time / output_tokens if output_tokens > 0 else 0.
mean_time_per_token(output_tokens, gen_time) ==
    IF output_tokens > 0 THEN Quot(gen_time, output_tokens) ELSE Zero

\* Mutant: the gaps are averaged over the number of chunks.
AvgOverChunkCount(chunk_times) ==
    IF chunk_times # << >> THEN IntTrunc(Sum(chunk_times), Len(chunk_times) + 1) ELSE 0

\* int(np.mean(chunk_times)) if chunk_times else 0.
time_between_chunks_avg(chunk_times) ==
    IF chunk_times # << >> THEN IntTrunc(Sum(chunk_times), Len(chunk_times)) ELSE 0

\* int(np.percentile(chunk_times, 95)) if chunk_times else 0: linear
\* interpolation between the two order statistics around 0.95 * (n - 1).
time_between_chunks_p95(chunk_times) ==
    IF chunk_times = << >> THEN 0
    ELSE LET a == SortSeq(chunk_times, LAMBDA x, y : x < y)
             h == 95 * (Len(a) - 1)
             lo == h \div 100 + 1
             hi == IF lo < Len(a) THEN lo + 1 ELSE lo
             v == 100 * a[lo] + (h % 100) * (a[hi] - a[lo])
         IN  IF v >= 0 THEN v \div 100 ELSE -((-v) \div 100)

\* Token counts the follow-up call reports (or the word counts used in
\* their place) for the prompt.
PromptTokens == {1}

\* The set_attribute calls at the end of the `with` block, on the frame f
\* that holds the computed metrics.
MetricAttributes(f) ==
    << <<"ai.ttft", OrZero(f.ttft)>>,
       <<"ai.ttlt", OrZero(f.ttlt)>>,
       <<"ai.queue_time", 0>>,
       <<"ai.generation_time", f.generation_time>>,
       <<"ai.tokens_per_second", Round2(f.tokens_per_second)>>,
       <<"ai.mean_time_per_token", Round2(f.mean_time_per_token)>>,
       <<"ai.chunk_count", f.chunk_count>>,
       <<"ai.time_between_chunks_avg", f.time_between_chunks_avg>>,
       <<"ai.time_between_chunks_p95", f.time_between_chunks_p95>>,
       <<"ai.input_tokens", f.input_tokens>>,
       <<"ai.output_tokens", f.output_tokens>>,
       <<"ai.total_tokens", f.total_tokens>>,
       <<"ai.context_window_usage_pct",
         Round2(Quot(f.total_tokens * 100, context_window_size(f.model)))>>,
       <<"ai.cache_hit", FALSE>> >>

\* From the end of the stream to the end of the `with` block: the token
\* counts are obtained, the metrics derived and attached, the span ended.
ComputeMetrics ==
    /\ frame.pc = "streamed" /\ frame.op = "generate_action_plan"
    /\ \E input_tokens \in PromptTokens, output_tokens \in 0..MaxTokens :
          LET gen_time == generation_time(frame.ttft, frame.ttlt)
              f == [frame EXCEPT
                      !.pc = "returned",
                      !.generation_time = gen_time,
                      !.input_tokens = input_tokens,
                      !.output_tokens = output_tokens,
                      !.total_tokens = input_tokens + output_tokens,
                      !.tokens_per_second = tokens_per_second(output_tokens, gen_time),
                      !.mean_time_per_token = mean_time_per_token(output_tokens, gen_time),
                      !.time_between_chunks_avg = time_between_chunks_avg(frame.chunk_times),
                      !.time_between_chunks_p95 = time_between_chunks_p95(frame.chunk_times)]
          IN  /\ frame' = f
              /\ span' = end_span(set_attributes(span, MetricAttributes(frame')), None)
    /\ UNCHANGED <<clock, arrivals, disconnected, messages, complexity, svcVars, propVars, bootVars, lookupVars, histVars, tokenVars>>

\* The streamed call, the iteration over it, or generate_content raises:
\* the exception leaves the `with` block and the handler.
LLMCallRaises ==
    /\ frame.pc = "calling" /\ frame.op = "generate_action_plan"
    /\ \E e \in LLMErrors :
          /\ frame' = [frame EXCEPT !.pc = "raised", !.exc = e]
          /\ span' = end_span(span, e)
    /\ UNCHANGED <<clock, arrivals, disconnected, messages, complexity, svcVars, propVars, bootVars, lookupVars, histVars, tokenVars>>

\* The follow-up token-count call (not issued for gemini) raises.
TokenCallRaises ==
    /\ frame.pc = "streamed" /\ frame.op = "generate_action_plan"
    /\ provider # "gemini"
    /\ \E e \in LLMErrors :
          /\ frame' = [frame EXCEPT !.pc = "raised", !.exc = e]
          /\ span' = end_span(span, e)
    /\ UNCHANGED <<clock, arrivals, disconnected, messages, complexity, svcVars, propVars, bootVars, lookupVars, histVars, tokenVars>>

\* generate_chat_response up to its LLM call.
StartChat ==
    /\ frame.pc = "idle"
    /\ \E model \in Models :
          /\ span' = start_span("ai.chat.completions",
                                << <<"ai.provider", provider>>, <<"ai.model", model>>,
                                   <<"flow.type", "chat">>,
                                   <<"message.length", messages[Len(messages)]>> >>)
          /\ frame' = [NoFrame EXCEPT !.pc = "calling", !.op = "generate_chat_response",
                                      !.model = model]
    /\ UNCHANGED <<clock, arrivals, disconnected, messages, complexity, svcVars, propVars, bootVars, lookupVars, histVars, tokenVars>>

\* The chat completion returns; openai and groq attach the token usage when
\* the response carries one.
ChatReturns ==
    /\ frame.pc = "calling" /\ frame.op = "generate_chat_response"
    /\ \E usage \in BOOLEAN, d \in Delays :
          /\ clock' = clock + d
          /\ frame' = [frame EXCEPT !.pc = "returned"]
          /\ span' = end_span(
                       IF provider # "gemini" /\ usage
                       THEN set_attributes(span, << <<"ai.tokens.prompt", 1>>,
                                                    <<"ai.tokens.completion", 1>>,
                                                    <<"ai.tokens.total", 2>> >>)
                       ELSE span, None)
    /\ UNCHANGED <<arrivals, disconnected, messages, complexity, svcVars, propVars, bootVars, lookupVars, histVars, tokenVars>>

\* The chat completion raises: the span is ended by the `with` block, then
\* the except block runs.
ChatRaises ==
    /\ frame.pc = "calling" /\ frame.op = "generate_chat_response"
    /\ \E e \in LLMErrors :
          /\ frame' = [frame EXCEPT !.pc = "raised", !.exc = ChatFailure(e)]
          /\ span' = end_span(span, e)
    /\ UNCHANGED <<clock, arrivals, disconnected, messages, complexity, svcVars, propVars, bootVars, lookupVars, histVars, tokenVars>>

\* The client goes away while its request is being handled.
Disconnect ==
    /\ InCall /\ ~disconnected
    /\ disconnected' = TRUE
    /\ UNCHANGED <<clock, arrivals, span, frame, messages, complexity, svcVars, propVars, bootVars, lookupVars, histVars, tokenVars>>

\* The message lists generate_action_plan builds, as the lengths of their
\* contents: the system prompt (446 characters), the conversation history,
\* and the user's request ("Create a detailed action plan for: " and the
\* template).  The first three are the requests of
\* test_complexity_classification; the fourth is its last request with a
\* template twice as long.
CallMessages ==
    { <<446, 52>>,
      <<446, 20, 23, 21, 140>>,
      <<446, 31, 32, 20, 7, 21, 10, 970>>,
      <<446, 31, 32, 20, 7, 21, 10, 1905>> }

InitCall ==
    /\ provider \in Providers
    /\ langfuse \in BOOLEAN
    /\ action_plans = << >>
    /\ req = [c \in Clients |-> NoRequest]
    /\ resp = [c \in Clients |-> NoResponse]
    /\ PropIdle
    /\ clock = 0
    /\ arrivals = << >>
    /\ span = NoSpan
    /\ frame = NoFrame
    /\ disconnected = FALSE
    /\ messages \in CallMessages
    /\ complexity = None
    /\ Booted
    /\ LookupIdle
    /\ race = NoRace
    /\ TokensIdle

\* The steps of a handler once its span is open.
HandlerStep ==
    \/ ReceiveChunk
    \/ EndOfStream
    \/ GenerateContent
    \/ ComputeMetrics
    \/ LLMCallRaises
    \/ TokenCallRaises
    \/ ChatReturns
    \/ ChatRaises

NextCall == StartGeneration \/ StartChat \/ HandlerStep \/ Disconnect

SpecCall == InitCall /\ [][NextCall]_vars

\* The blocking LLM calls return or raise (the clients time out), so a
\* handler that has started keeps taking steps.
SpecCallFair == SpecCall /\ WF_vars(HandlerStep)

(***************************************************************************)
(* SpecComplexity: _calculate_complexity applied to a message list.        *)
(***************************************************************************)

\* Messages a list holds at most.
MaxMessages == 7

\* Message lists: the first message of one length, the others of another.
MessageLists ==
    { [i \in 1..n |-> IF i = 1 THEN a ELSE b] :
         n \in 0..MaxMessages,
         a \in {0, 100, 499, 500, 1000, 1999, 2000, 3000},
         b \in {0, 300} }

Classify ==
    /\ complexity = None
    /\ complexity' = calculate_complexity(messages)
    /\ UNCHANGED <<clock, arrivals, span, frame, disconnected, messages, svcVars, propVars, bootVars, lookupVars, histVars, tokenVars>>

InitComplexity ==
    /\ provider = "openai"
    /\ langfuse = FALSE
    /\ action_plans = << >>
    /\ req = [c \in Clients |-> NoRequest]
    /\ resp = [c \in Clients |-> NoResponse]
    /\ PropIdle
    /\ clock = 0
    /\ arrivals = << >>
    /\ span = NoSpan
    /\ frame = NoFrame
    /\ disconnected = FALSE
    /\ messages \in MessageLists
    /\ complexity = None
    /\ Booted
    /\ LookupIdle
    /\ race = NoRace
    /\ TokensIdle

NextComplexity == Classify

SpecComplexity == InitComplexity /\ [][NextComplexity]_vars

(***************************************************************************)
(* Claims about the instrumented call (checked under SpecCall).            *)
(***************************************************************************)

\* The streamed call of generate_action_plan has left its loop.
StreamDone ==
    /\ frame.op = "generate_action_plan" /\ provider # "gemini"
    /\ frame.pc \in {"streamed", "returned"}

\* What the loop has recorded for the N >= 1 chunks that arrived.
StreamSamples ==
    LET N == Len(arrivals)
    IN  /\ frame.ttft = <<Millis(arrivals[1], frame.request_start_time)>>
        /\ frame.ttlt = <<Millis(arrivals[N], frame.request_start_time)>>
        /\ frame.chunk_count = N
        /\ Len(frame.chunk_times) = N - 1
        /\ \A i \in 1..(N - 1) :
              frame.chunk_times[i] = Millis(arrivals[i + 1], arrivals[i])

\* C12 (as claimed): after a stream of N >= 1 chunks, ttft and ttlt are the
\* arrival times of the first and the last chunk from request start,
\* chunk_count = N, N-1 gaps are recorded in arrival order, and
\* time_between_chunks_avg is the mean of the gaps (0 when N = 1).
C12_StreamMetricsExactMean ==
    (StreamDone /\ Len(arrivals) >= 1) =>
        /\ StreamSamples
        /\ frame.pc = "returned" =>
              IF Len(arrivals) = 1 THEN frame.time_between_chunks_avg = 0
              ELSE frame.time_between_chunks_avg * (Len(arrivals) - 1) = Sum(frame.chunk_times)

\* C12 (amended): as above, time_between_chunks_avg being the mean of the
\* gaps truncated toward zero to a whole number of milliseconds.
C12_StreamMetrics ==
    (StreamDone /\ Len(arrivals) >= 1) =>
        /\ StreamSamples
        /\ frame.pc = "returned" =>
              IF Len(arrivals) = 1 THEN frame.time_between_chunks_avg = 0
              ELSE frame.time_between_chunks_avg =
                      IntTrunc(Sum(frame.chunk_times), Len(arrivals) - 1)

\* C12 witness: three chunks, gaps of 1 ms and 2 ms, average 1 ms.
C12_Witness ==
    /\ StreamDone /\ frame.pc = "returned"
    /\ Len(arrivals) = MaxChunks
    /\ Sum(frame.chunk_times) = 3
    /\ frame.time_between_chunks_avg = 1

IsZero(q) == q.num = 0
IsNegative(q) == (q.num < 0 /\ q.den > 0) \/ (q.num > 0 /\ q.den < 0)

\* C13 (as claimed): tokens_per_second and mean_time_per_token are both 0
\* whenever output_tokens = 0 or generation_time <= 0, neither is ever
\* negative, and neither is a division by zero.
C13_GuardedRates ==
    (frame.op = "generate_action_plan" /\ frame.pc = "returned") =>
        /\ frame.tokens_per_second.den # 0
        /\ frame.mean_time_per_token.den # 0
        /\ ~IsNegative(frame.tokens_per_second)
        /\ ~IsNegative(frame.mean_time_per_token)
        /\ (frame.output_tokens = 0 \/ frame.generation_time <= 0) =>
              /\ IsZero(frame.tokens_per_second)
              /\ IsZero(frame.mean_time_per_token)

\* Combined content length and message count of the classified list.
TotalLength == Sum(messages)
MessageCount == Len(messages)

C15_ShortManyIsMedium ==
    (complexity # None /\ TotalLength = 100 /\ MessageCount = 7) => complexity = "medium"

\* The ai.* attributes declared for the generation span.
EXPECTED_AI_ATTRIBUTES ==
    { "ai.ttft", "ai.ttlt", "ai.queue_time", "ai.generation_time",
      "ai.tokens_per_second", "ai.mean_time_per_token",
      "ai.chunk_count", "ai.time_between_chunks_avg", "ai.time_between_chunks_p95",
      "ai.input_tokens", "ai.output_tokens", "ai.total_tokens",
      "ai.context_window_usage_pct",
      "ai.provider", "ai.model", "ai.temperature", "ai.max_tokens",
      "ai.streaming_enabled",
      "ai.prompt_length", "ai.prompt_complexity", "ai.message_count",
      "ai.cache_hit" }

\* How often an attribute was attached to the span, and with what value.
Attached(name) == { i \in DOMAIN span.attributes : span.attributes[i][1] = name }
AttributeValue(name) == span.attributes[CHOOSE i \in Attached(name) : TRUE][2]

GenerationReturned == frame.op = "generate_action_plan" /\ frame.pc = "returned"

\* C16: on every normal completion of generate_action_plan the span
\* ai.action_plan.generation carries each of the 22 declared ai.* attributes
\* exactly once, attached before the span ended; queue_time is 0, cache_hit
\* is false, and ttft is 0 when no chunk arrived.
C16_AllAttributesOnce ==
    GenerationReturned =>
        /\ span.name = "ai.action_plan.generation"
        /\ ~span.open /\ span.ended = 1
        /\ Cardinality(EXPECTED_AI_ATTRIBUTES) = 22
        /\ \A name \in EXPECTED_AI_ATTRIBUTES : Cardinality(Attached(name)) = 1
        /\ AttributeValue("ai.queue_time") = 0
        /\ AttributeValue("ai.cache_hit") = FALSE
        /\ frame.ttft = << >> => AttributeValue("ai.ttft") = 0
        /\ AttributeValue("ai.ttlt") = OrZero(frame.ttlt)

\* C16 witness: a stream that delivered no chunk completed normally.
C16_Witness ==
    /\ GenerationReturned /\ provider = "groq"
    /\ arrivals = << >> /\ frame.chunk_count = 0
    /\ Cardinality(Attached("ai.ttft")) = 1
    /\ Len(span.attributes) = 23

\* C17 (as claimed): when the LLM call fails, the exception that reaches the
\* caller of the service is that same failure, the one that left the `with`
\* block, whether or not Langfuse is configured.
C17_FailureUnchanged ==
    frame.pc = "raised" => frame.exc = span.exception

\* C18 (as claimed): the update and commit routes answer 404 exactly when
\* the plan id is not in the registry; a failure of the LLM call during an
\* update of a known id is answered with 500.
C18_NotFoundOnly ==
    [][\A c \in Clients :
         (Handled(c, "update_action_plan") \/ Handled(c, "commit_action_plan")) =>
            (resp'[c].status_code = 404 <=> NotFound(action_plans, req[c].action_plan_id))]_vars

\* C19: every span opened by generate_chat_response or generate_action_plan
\* is eventually closed: once the handler has returned or raised the span
\* has been ended, exactly once, and an open span never stays open, also
\* when the client has gone away meanwhile.
C19_SpansClosed ==
    /\ [](frame.pc \in {"returned", "raised"} => (~span.open /\ span.ended = 1))
    /\ (span.open ~> ~span.open)

\* C19 witness: the client went away during a stream whose iteration then
\* raised, and the span is ended.
C19_Witness ==
    /\ disconnected
    /\ frame.op = "generate_action_plan" /\ frame.pc = "raised"
    /\ frame.chunk_count > 0
    /\ ~span.open /\ span.ended = 1 /\ span.status = "ERROR"

(***************************************************************************)
(* SpecBoot: construction of the module-level AIService from the settings, *)
(* and the requests the routes hand to it afterwards.                      *)
(***************************************************************************)

\* Requests counted at most.
MaxHandled == 2

\* AIService.__init__ on the settings: the groq branch checks its key, the
\* gemini branch passes GOOGLE_API_KEY to genai.configure and the openai
\* branch passes OPENAI_API_KEY to OpenAI(api_key=...), an empty string
\* included; neither of the two looks at the key before a request is sent.
AIServiceInit(p, keys) ==
    IF p = "groq" /\ "groq" \notin keys THEN "ValueError" ELSE "AIService"

\* `ai_service = AIService()` when app.ai_service is imported.
Construct ==
    /\ ai_service = None
    /\ ai_service' = AIServiceInit(provider, api_keys)
    /\ UNCHANGED <<api_keys, handled, svcVars, propVars, callVars, lookupVars, histVars, tokenVars>>

\* A route hands a request to the constructed service.  When the import
\* failed the application does not start and no route exists.
HandleRequest ==
    /\ ai_service = "AIService"
    /\ handled < MaxHandled
    /\ handled' = handled + 1
    /\ UNCHANGED <<api_keys, ai_service, svcVars, propVars, callVars, lookupVars, histVars, tokenVars>>

InitBoot ==
    /\ provider \in Providers
    /\ langfuse \in BOOLEAN
    /\ api_keys \in SUBSET Providers
    /\ ai_service = None
    /\ handled = 0
    /\ action_plans = << >>
    /\ req = [c \in Clients |-> NoRequest]
    /\ resp = [c \in Clients |-> NoResponse]
    /\ PropIdle
    /\ CallIdle
    /\ LookupIdle
    /\ race = NoRace
    /\ TokensIdle

NextBoot == Construct \/ HandleRequest

SpecBoot == InitBoot /\ [][NextBoot]_vars

\* C20 (as claimed): for every configured provider, if its API key is
\* missing, constructing AIService fails, so no request is ever handled by a
\* service whose credential is missing.
C20_MissingKeyFailsInit ==
    provider \notin api_keys => (ai_service # "AIService" /\ handled = 0)

(***************************************************************************)
(* Claims about SentryPropagator.extract called on its own (SpecExtract).  *)
(***************************************************************************)

\* extract was called with a getter, on a value it can split.
CalledWithGetter ==
    ~NotCalled /\ getter # None /\ value_type \in {"list", "str"}

\* Valid id segments followed by a flag segment that is neither 0 nor 1.
OddFlagValue ==
    /\ HeaderPresent
    /\ Len(SentryParts) = 3
    /\ IsHex(SentryParts[1], TraceIdHexLen)
    /\ IsHex(SentryParts[2], SpanIdHexLen)
    /\ SentryParts[3] \notin Flags

\* C21: a sentry-trace value with valid trace-id and span-id segments and a
\* flag segment that is neither 1 nor 0 is decoded without an error: the
\* returned context holds the remote parent of the header's ids with the
\* sampled flag cleared.
C21_OddFlagNotSampled ==
    (CalledWithGetter /\ OddFlagValue) =>
        /\ raised = None
        /\ \E sc \in returned[1].span :
              /\ returned[1].span = {sc}
              /\ sc.is_remote
              /\ sc.trace_flags = 0
              /\ FormatHex(sc.trace_id, TraceIdHexLen) = Lower(SentryParts[1])
              /\ FormatHex(sc.span_id, SpanIdHexLen) = Lower(SentryParts[2])

\* C21 witness: the flag segment "true" was decoded into a not-sampled
\* parent that replaced the parent the context held before.
C21_Witness ==
    /\ CalledWithGetter /\ OddFlagValue
    /\ SentryParts[3] = <<"t", "r", "u", "e">>
    /\ given.span # {}
    /\ raised = None
    /\ \E sc \in returned[1].span : sc.trace_flags = 0 /\ sc \notin given.span

(***************************************************************************)
(* SpecLookup: SentryPropagator._default_getter on a plain dict of         *)
(* headers.  A header name is a sequence of one-character strings; a       *)
(* header value is a str or a list of str.                                 *)
(***************************************************************************)

AsciiUpper == <<"A", "B", "C", "D", "E", "F", "G", "H", "I", "J", "K", "L", "M",
                "N", "O", "P", "Q", "R", "S", "T", "U", "V", "W", "X", "Y", "Z">>
AsciiLower == <<"a", "b", "c", "d", "e", "f", "g", "h", "i", "j", "k", "l", "m",
                "n", "o", "p", "q", "r", "s", "t", "u", "v", "w", "x", "y", "z">>

\* str.lower() on a header name.
str_lower(s) ==
    [i \in DOMAIN s |->
        IF \E j \in 1..26 : AsciiUpper[j] = s[i]
        THEN AsciiLower[CHOOSE j \in 1..26 : AsciiUpper[j] = s[i]]
        ELSE s[i]]

\* SentryPropagator._SENTRY_TRACE_HEADER.
SENTRY_TRACE_HEADER == <<"s", "e", "n", "t", "r", "y", "-", "t", "r", "a", "c", "e">>

\* The letter-casings of the header name that are drawn.
HeaderNames ==
    { SENTRY_TRACE_HEADER,
      <<"S", "e", "n", "t", "r", "y", "-", "T", "r", "a", "c", "e">>,
      <<"S", "E", "N", "T", "R", "Y", "-", "T", "R", "A", "C", "E">> }

\* A str value and a list value of a dict of headers.
HeaderValues ==
    { [type |-> "str", values |-> <<"a">>], [type |-> "str", values |-> <<"b">>],
      [type |-> "list", values |-> <<"a", "b">>] }

\* The carriers drawn: None, and every dict from some of the names to values.
HeaderDicts ==
    {NoCarrier} \cup { Dict(d) : d \in UNION { [names -> HeaderValues] : names \in SUBSET HeaderNames } }

\* What a lookup returns: None, or a list of values.
ReturnedNone == [called |-> TRUE, none |-> TRUE, values |-> << >>]
ReturnedList(vs) == [called |-> TRUE, none |-> FALSE, values |-> vs]

\* SentryPropagator._default_getter(carrier, key): carrier.get(key.lower()),
\* then carrier.get(key) when that gave None; a str value is wrapped in a
\* list.
default_getter(c, k) ==
    IF c.is_none THEN ReturnedNone
    ELSE IF str_lower(k) \in DOMAIN c.dict THEN ReturnedList(c.dict[str_lower(k)].values)
    ELSE IF k \in DOMAIN c.dict THEN ReturnedList(c.dict[k].values)
    ELSE ReturnedNone

DefaultLookup ==
    /\ ~found.called
    /\ found' = default_getter(headers, lookup_key)
    /\ UNCHANGED <<headers, lookup_key, svcVars, propVars, callVars, bootVars, histVars, tokenVars>>

InitLookup ==
    /\ headers \in HeaderDicts
    /\ lookup_key \in HeaderNames
    /\ found = NotLooked
    /\ provider = "openai"
    /\ langfuse = FALSE
    /\ action_plans = << >>
    /\ req = [c \in Clients |-> NoRequest]
    /\ resp = [c \in Clients |-> NoResponse]
    /\ PropIdle
    /\ CallIdle
    /\ Booted
    /\ race = NoRace
    /\ TokensIdle

NextLookup == DefaultLookup

SpecLookup == InitLookup /\ [][NextLookup]_vars

\* C22 (as claimed): the default lookup is case-insensitive.  When the
\* carrier holds the header under any letter-casing of the name looked up,
\* the lookup returns its value; the value under the exact-case key when that
\* key is present, the value under the lower-cased key when it is not.
C22_CaseInsensitiveLookup ==
    (found.called /\ ~headers.is_none) =>
        /\ (\E n \in DOMAIN headers.dict : str_lower(n) = str_lower(lookup_key)) => ~found.none
        /\ lookup_key \in DOMAIN headers.dict =>
              found = ReturnedList(headers.dict[lookup_key].values)
        /\ (lookup_key \notin DOMAIN headers.dict /\ str_lower(lookup_key) \in DOMAIN headers.dict) =>
              found = ReturnedList(headers.dict[str_lower(lookup_key)].values)

(***************************************************************************)
(* SpecCallAll: the instrumented calls of SpecCall together with the LLM   *)
(* call of update_action_plan, which the service issues without opening a  *)
(* span.                                                                   *)
(***************************************************************************)

\* update_action_plan up to its LLM call: the plan is read and the messages
\* are built; no span is started.
StartUpdate ==
    /\ frame.pc = "idle"
    /\ \E model \in Models :
          frame' = [NoFrame EXCEPT !.pc = "calling", !.op = "update_action_plan",
                                   !.model = model]
    /\ UNCHANGED <<clock, arrivals, span, disconnected, messages, complexity, svcVars, propVars, bootVars, lookupVars, histVars, tokenVars>>

\* The update's completion returns.
UpdateReturns ==
    /\ frame.pc = "calling" /\ frame.op = "update_action_plan"
    /\ \E d \in Delays : clock' = clock + d
    /\ frame' = [frame EXCEPT !.pc = "returned"]
    /\ UNCHANGED <<arrivals, span, disconnected, messages, complexity, svcVars, propVars, bootVars, lookupVars, histVars, tokenVars>>

\* The update's completion raises; the except block re-raises it.
UpdateRaises ==
    /\ frame.pc = "calling" /\ frame.op = "update_action_plan"
    /\ \E e \in LLMErrors : frame' = [frame EXCEPT !.pc = "raised", !.exc = e]
    /\ UNCHANGED <<clock, arrivals, span, disconnected, messages, complexity, svcVars, propVars, bootVars, lookupVars, histVars, tokenVars>>

NextCallAll == NextCall \/ StartUpdate \/ UpdateReturns \/ UpdateRaises

SpecCallAll == InitCall /\ [][NextCallAll]_vars

\* An LLM call is in flight: the chat, streamed or update call while the
\* handler is at "calling", the follow-up token-count call (not issued for
\* gemini) once the stream has ended.
LLMCallInFlight ==
    \/ frame.pc = "calling"
    \/ frame.pc = "streamed" /\ provider # "gemini"

\* C23 (as claimed): every LLM call the service makes (chat, streamed
\* generation, follow-up token count, update) is issued while a span the
\* service opened for it is open, and that span is closed once the handler
\* has returned or raised.
C23_CallsInsideSpan ==
    /\ LLMCallInFlight => span.open
    /\ frame.pc \in {"returned", "raised"} => (~span.open /\ span.ended = 1)

(***************************************************************************)
(* SpecRace: the service of Spec, with a record of the moment two updates  *)
(* of one plan came to be in flight together: the plan's id and the        *)
(* version the registry held then.                                         *)
(***************************************************************************)

\* Whether request r of client c is an update of a stored plan that another
\* client's pending request also updates.
Overlaps(c, r) ==
    /\ r.op = "update_action_plan"
    /\ r.action_plan_id \in DOMAIN action_plans
    /\ \E d \in Clients \ {c} :
          req[d].op = "update_action_plan" /\ req[d].action_plan_id = r.action_plan_id

\* A request arrives and waits for the event loop, as in Receive.
ReceiveTracked(c) ==
    /\ Idle(c)
    /\ \E r \in Requests :
          /\ req' = [req EXCEPT ![c] = r]
          /\ resp' = [resp EXCEPT ![c] = NoResponse]
          /\ race' = IF Overlaps(c, r)
                     THEN [id |-> r.action_plan_id,
                           version |-> action_plans[r.action_plan_id].version]
                     ELSE NoRace
    /\ UNCHANGED <<provider, langfuse, action_plans, propVars, callVars, bootVars, lookupVars, tokenVars>>

NextRace ==
    \E c \in Clients :
       \/ ReceiveTracked(c)
       \/ generate_chat_response(c)
       \/ generate_action_plan(c)
       \/ update_action_plan(c)
       \/ commit_action_plan(c)

SpecRace == Init /\ [][NextRace]_vars

\* Both updates that were in flight together have been answered with success.
RaceOver ==
    /\ race # NoRace
    /\ \A c \in Clients :
          /\ req[c] = NoRequest
          /\ resp[c].op = "update_action_plan"
          /\ resp[c].status_code = 200

\* C24 (as claimed): when two updates of one plan were in flight together
\* at version v and both succeeded, both read version v, so both wrote
\* version v + 1 and the registry ends at version v + 1.
C24_LostUpdate ==
    RaceOver =>
        /\ action_plans[race.id].version = race.version + 1
        /\ \A c \in Clients : resp[c].action_plan.version = race.version + 1

(***************************************************************************)
(* Further claims about the instrumented call (checked under SpecCall).    *)
(***************************************************************************)

\* C25 (as claimed): generation_time equals ttlt - ttft whenever at least
\* one chunk was received, also when ttft is 0 ms, and equals ttlt when no
\* first-chunk time is available; tokens_per_second and mean_time_per_token
\* are derived from that value.
C25_GenerationTime ==
    GenerationReturned =>
        /\ frame.chunk_count >= 1 => frame.generation_time = frame.ttlt[1] - frame.ttft[1]
        /\ frame.ttft = << >> => frame.generation_time = frame.ttlt[1]
        /\ frame.tokens_per_second =
              IF frame.generation_time > 0
              THEN Quot(frame.output_tokens * 1000, frame.generation_time) ELSE Zero
        /\ frame.mean_time_per_token =
              IF frame.output_tokens > 0
              THEN Quot(frame.generation_time, frame.output_tokens) ELSE Zero

(***************************************************************************)
(* SpecTokens: the output text and the token accounting of                 *)
(* generate_action_plan.  Texts are sequences of one-character strings.    *)
(* The timing of the same steps and the span are followed in SpecCall.     *)
(***************************************************************************)

\* The characters str.split() treats as separators.
SplitWhitespace == {" ", "\n", "\t", "\r"}

\* Mutant: the text is split at single spaces, len(s.split(" ")).
SplitOnSpaceLen(s) == 1 + Cardinality({ i \in DOMAIN s : s[i] = " " })

\* len(s.split()): the number of maximal runs of characters that are not
\* whitespace.
split_len(s) ==
    Cardinality({ i \in DOMAIN s :
                    s[i] \notin SplitWhitespace /\ (i = 1 \/ s[i - 1] \in SplitWhitespace) })

RECURSIVE Concat(_)
Concat(ss) == IF ss = << >> THEN << >> ELSE Head(ss) \o Concat(Tail(ss))

\* repr() of a str without quote characters: single quotes around it, control
\* characters and the backslash written as escapes.
ReprStr(s) ==
    <<"'">> \o Concat([i \in DOMAIN s |->
                          IF s[i] = "\n" THEN <<"\\", "n">>
                          ELSE IF s[i] = "\t" THEN <<"\\", "t">>
                          ELSE IF s[i] = "\r" THEN <<"\\", "r">>
                          ELSE IF s[i] = "\\" THEN <<"\\", "\\">>
                          ELSE <<s[i]>>]) \o <<"'">>

\* str(messages): the repr of a list of {"role": ..., "content": ...} dicts.
ReprMessage(m) ==
    <<"{", "'", "r", "o", "l", "e", "'", ":", " ">> \o ReprStr(m.role)
       \o <<",", " ", "'", "c", "o", "n", "t", "e", "n", "t", "'", ":", " ">>
       \o ReprStr(m.content) \o <<"}">>
StrMessages(ms) ==
    <<"[">> \o Concat([i \in DOMAIN ms |->
                          (IF i > 1 THEN <<",", " ">> ELSE << >>) \o ReprMessage(ms[i])])
            \o <<"]">>

Message(role, content) == [role |-> role, content |-> content]
Role ==
    [system |-> <<"s", "y", "s", "t", "e", "m">>, user |-> <<"u", "s", "e", "r">>,
     assistant |-> <<"a", "s", "s", "i", "s", "t", "a", "n", "t">>]

\* Message contents and chunk contents that are drawn.
Texts == { <<"a">>, <<"a", " ", "b">>, <<"a", "\n", " ", "b">> }

\* The message lists generate_action_plan builds: the system prompt, the
\* conversation history (none or one message), the user's request.
MessageTexts ==
       { << Message(Role.system, <<"a", " ", "b">>), Message(Role.user, u) >> : u \in Texts }
  \cup { << Message(Role.system, <<"a", " ", "b">>), Message(Role.assistant, h), Message(Role.user, u) >> :
            h \in Texts, u \in Texts }

\* A chunk of the stream: without choices, or with the delta content of its
\* first choice (<< >> for a content that is None or empty).
Chunks ==
    { [choices |-> FALSE, content |-> << >>] }
       \cup { [choices |-> TRUE, content |-> c] :
                 c \in { << >>, <<"a">>, <<" ">>, <<"b", "\n", "c">> } }

\* The follow-up call's response: None when the call is not made (gemini),
\* else a completion whose usage is None or holds the two counts.
NoTokenResponse == [reached |-> TRUE, is_none |-> TRUE, usage |-> << >>]
TokenResponse(usage) == [reached |-> TRUE, is_none |-> FALSE, usage |-> usage]
TokenResponses ==
    { TokenResponse(<< >>) }
       \cup { TokenResponse(<<[prompt_tokens |-> p, completion_tokens |-> c]>>) : p \in {0, 9}, c \in {0, 1} }

\* token_response.usage.prompt_tokens if token_response and
\* token_response.usage else len(str(messages).split()).
input_tokens(tr, ms) ==
    IF ~tr.is_none /\ tr.usage # << >> THEN tr.usage[1].prompt_tokens
    ELSE split_len(StrMessages(ms))

\* token_response.usage.completion_tokens if token_response and
\* token_response.usage else len(plan_content.split()).
output_tokens(tr, content) ==
    IF ~tr.is_none /\ tr.usage # << >> THEN tr.usage[1].completion_tokens
    ELSE split_len(content)

\* generate_action_plan up to its LLM call.
StartStream ==
    /\ frame.pc = "idle"
    /\ frame' = [NoFrame EXCEPT !.pc = "calling", !.op = "generate_action_plan"]
    /\ UNCHANGED <<clock, arrivals, span, disconnected, messages, complexity,
                   svcVars, propVars, bootVars, lookupVars, histVars, tokenVars>>

\* One iteration of `for chunk in response`: the delta content of the
\* chunk's first choice, when there is one and it is not empty, is appended.
StreamChunk ==
    /\ frame.pc = "calling" /\ provider # "gemini"
    /\ frame.chunk_count < MaxChunks
    /\ \E chunk \in Chunks :
          /\ plan_content' = IF chunk.choices /\ chunk.content # << >>
                             THEN plan_content \o chunk.content ELSE plan_content
          /\ frame' = [frame EXCEPT !.chunk_count = @ + 1]
    /\ UNCHANGED <<clock, arrivals, span, disconnected, messages, complexity,
                   svcVars, propVars, bootVars, lookupVars, histVars,
                   token_response, message_texts>>

\* The stream is exhausted.
StreamEnds ==
    /\ frame.pc = "calling" /\ provider # "gemini"
    /\ frame' = [frame EXCEPT !.pc = "streamed"]
    /\ UNCHANGED <<clock, arrivals, span, disconnected, messages, complexity,
                   svcVars, propVars, bootVars, lookupVars, histVars, tokenVars>>

\* gemini: plan_content = response.text.
GeminiText ==
    /\ frame.pc = "calling" /\ provider = "gemini"
    /\ \E text \in Texts \cup {<< >>} : plan_content' = text
    /\ frame' = [frame EXCEPT !.pc = "streamed", !.chunk_count = 1]
    /\ UNCHANGED <<clock, arrivals, span, disconnected, messages, complexity,
                   svcVars, propVars, bootVars, lookupVars, histVars,
                   token_response, message_texts>>

\* The follow-up call (not made for gemini) returns and the token counts
\* are taken.
CountTokens ==
    /\ frame.pc = "streamed"
    /\ token_response' \in IF provider = "gemini" THEN {NoTokenResponse} ELSE TokenResponses
    /\ frame' = [frame EXCEPT
                   !.pc = "counted",
                   !.input_tokens = input_tokens(token_response', message_texts),
                   !.output_tokens = output_tokens(token_response', plan_content),
                   !.total_tokens = input_tokens(token_response', message_texts)
                                       + output_tokens(token_response', plan_content)]
    /\ UNCHANGED <<clock, arrivals, span, disconnected, messages, complexity,
                   svcVars, propVars, bootVars, lookupVars, histVars,
                   plan_content, message_texts>>

\* The streamed call, its iteration or the follow-up call raises.
StreamRaises ==
    /\ frame.pc \in {"calling", "streamed"}
    /\ frame.pc = "streamed" => provider # "gemini"
    /\ \E e \in LLMErrors : frame' = [frame EXCEPT !.pc = "raised", !.exc = e]
    /\ UNCHANGED <<clock, arrivals, span, disconnected, messages, complexity,
                   svcVars, propVars, bootVars, lookupVars, histVars, tokenVars>>

InitTokens ==
    /\ provider \in Providers
    /\ langfuse = FALSE
    /\ action_plans = << >>
    /\ req = [c \in Clients |-> NoRequest]
    /\ resp = [c \in Clients |-> NoResponse]
    /\ PropIdle
    /\ CallIdle
    /\ Booted
    /\ LookupIdle
    /\ race = NoRace
    /\ plan_content = << >>
    /\ token_response = NotReached
    /\ message_texts \in MessageTexts

NextTokens ==
    StartStream \/ StreamChunk \/ StreamEnds \/ GeminiText \/ CountTokens \/ StreamRaises

SpecTokens == InitTokens /\ [][NextTokens]_vars

\* The number of whitespace-delimited words of a text, counted at the ends
\* of the words.
Words(s) ==
    Cardinality({ i \in DOMAIN s :
                    /\ s[i] \notin {" ", "\n", "\t", "\r"}
                    /\ (i = Len(s) \/ s[i + 1] \in {" ", "\n", "\t", "\r"}) })

UsageSupplied == ~token_response.is_none /\ token_response.usage # << >>

\* C26: token accounting in generate_action_plan happens only after the
\* stream has completed.  When the follow-up response carries usage counts,
\* input_tokens and output_tokens are those counts; otherwise (gemini, or a
\* response without usage) output_tokens is the number of whitespace-
\* delimited words of the concatenated output and input_tokens the same
\* measure over str(messages); total_tokens is their sum in every case.
C26_TokenAccounting ==
    /\ frame.pc \in {"idle", "calling", "streamed"} =>
          /\ token_response = NotReached
          /\ frame.input_tokens = 0 /\ frame.output_tokens = 0 /\ frame.total_tokens = 0
    /\ frame.pc = "counted" =>
          /\ token_response.reached
          /\ token_response.is_none <=> provider = "gemini"
          /\ frame.total_tokens = frame.input_tokens + frame.output_tokens
          /\ UsageSupplied =>
                /\ frame.input_tokens = token_response.usage[1].prompt_tokens
                /\ frame.output_tokens = token_response.usage[1].completion_tokens
          /\ ~UsageSupplied =>
                /\ frame.output_tokens = Words(plan_content)
                /\ frame.input_tokens = Words(StrMessages(message_texts))
                /\ message_texts = << Message(Role.system, <<"a", " ", "b">>),
                                      Message(Role.user, <<"a">>) >>
                      => frame.input_tokens = 9

\* C26 witness: a stream whose chunks made up "a b<newline>c" was followed
\* by a response without usage, and the words were counted.
C26_Witness ==
    /\ frame.pc = "counted" /\ provider = "groq"
    /\ ~UsageSupplied
    /\ plan_content = <<"a", " ", "b", "\n", "c">>
    /\ frame.output_tokens = 3
    /\ Len(message_texts) = 3
    /\ frame.total_tokens = frame.input_tokens + 3

\* generate_action_plan has opened its span.
GenerationStarted ==
    frame.op = "generate_action_plan" /\ span.name = "ai.action_plan.generation"

\* C27 (as claimed): a generate request whose prompt has more than 5
\* messages or more than 2000 characters in total is labelled with prompt
\* complexity high.
C27_LongPromptIsHigh ==
    (GenerationStarted /\ (Len(messages) > 5 \/ Sum(messages) > 2000)) =>
        AttributeValue("ai.prompt_complexity") = "high"

(***************************************************************************)
(* SpecFrame: the service of Spec with chat requests of every flow type,   *)
(* with and without an action_plan_id.                                     *)
(***************************************************************************)

\* The request bodies of the four routes, every flow_type included.
AllRequests ==
    Requests \cup
       { [op |-> "send_message", action_plan_id |-> i, flow_type |-> f, title |-> None] :
             i \in {None, "u1"}, f \in FlowTypes }

\* A request arrives and waits for the event loop, as in Receive.
ReceiveAny(c) ==
    /\ Idle(c)
    /\ \E r \in AllRequests :
          /\ req' = [req EXCEPT ![c] = r]
          /\ resp' = [resp EXCEPT ![c] = NoResponse]
    /\ UNCHANGED <<provider, langfuse, action_plans, propVars, callVars, bootVars,
                   lookupVars, histVars, tokenVars>>

InitFrame ==
    /\ provider \in {"openai", "gemini"}
    /\ langfuse = FALSE
    /\ action_plans = << >>
    /\ req = [c \in Clients |-> NoRequest]
    /\ resp = [c \in Clients |-> NoResponse]
    /\ PropIdle
    /\ CallIdle
    /\ Booted
    /\ LookupIdle
    /\ race = NoRace
    /\ TokensIdle

NextFrame ==
    \E c \in Clients :
       \/ ReceiveAny(c)
       \/ generate_chat_response(c)
       \/ generate_action_plan(c)
       \/ update_action_plan(c)
       \/ commit_action_plan(c)

SpecFrame == InitFrame /\ [][NextFrame]_vars

\* The entries of the registry other than that of id are as they were.
OthersKept(id) ==
    \A k \in DOMAIN action_plans' :
       k # id => (k \in DOMAIN action_plans /\ action_plans'[k] = action_plans[k])

\* C28: the set of plan ids only grows, every key maps to a plan whose id
\* is the key, and an operation changes at most the entry of the id it
\* names: generate adds at most one fresh key and leaves every existing
\* entry unchanged, update and commit of id X leave every other entry
\* unchanged, and generate_chat_response, whatever its flow type and
\* action_plan_id, leaves the registry unchanged and returns no plan.
C28_RegistryFrame ==
    [][/\ DOMAIN action_plans \subseteq DOMAIN action_plans'
       /\ \A k \in DOMAIN action_plans' : action_plans'[k].id = k
       /\ \A c \in Clients :
             /\ Handled(c, "generate_action_plan") =>
                   /\ \A k \in DOMAIN action_plans : action_plans'[k] = action_plans[k]
                   /\ Cardinality(DOMAIN action_plans' \ DOMAIN action_plans)
                         = IF Succeeded(c) THEN 1 ELSE 0
             /\ (Handled(c, "update_action_plan") \/ Handled(c, "commit_action_plan")) =>
                   /\ DOMAIN action_plans' = DOMAIN action_plans
                   /\ OthersKept(req[c].action_plan_id)
             /\ Handled(c, "send_message") =>
                   /\ action_plans' = action_plans
                   /\ resp'[c].action_plan = NoPlan
             /\ (Idle(c) /\ req'[c] # NoRequest) => action_plans' = action_plans
      ]_vars

\* C28 witness: with both ids stored, one plan updated and the other
\* committed at version 1, a chat request naming a plan was answered.
C28_Witness ==
    /\ DOMAIN action_plans = UUIDs
    /\ action_plans["u1"].version = 2
    /\ action_plans["u2"].version = 1 /\ action_plans["u2"].status = "saved"
    /\ \E c \in Clients : resp[c].op = "send_message" /\ resp[c].status_code = 200

(***************************************************************************)
(* commit_action_plan on a known id (checked under SpecFrame).             *)
(***************************************************************************)

\* Client c's commit request names a plan the registry holds.
CommitsKnown(c) ==
    Handled(c, "commit_action_plan") /\ req[c].action_plan_id \in DOMAIN action_plans

\* C29: commit_action_plan on a known id succeeds, sets the status of that
\* plan to saved and leaves its id, title, content and version and every
\* other entry as they were, and returns the stored plan; committing a plan
\* that is already saved leaves the registry as it was.
C29_CommitOnlyStatus ==
    [][ \A c \in Clients :
           CommitsKnown(c) =>
              LET id == req[c].action_plan_id
              IN  /\ Succeeded(c)
                  /\ DOMAIN action_plans' = DOMAIN action_plans
                  /\ OthersKept(id)
                  /\ action_plans'[id].status = "saved"
                  /\ action_plans'[id].id = action_plans[id].id
                  /\ action_plans'[id].title = action_plans[id].title
                  /\ action_plans'[id].content = action_plans[id].content
                  /\ action_plans'[id].version = action_plans[id].version
                  /\ resp'[c].action_plan = action_plans'[id]
                  /\ action_plans[id].status = "saved" => action_plans' = action_plans
      ]_vars

\* C29 witness: both clients hold the answer to a commit of the same plan at
\* the same version, so the later of the two commits found the plan saved;
\* the plan had been updated before (a commit of a version above 1).
C29_Witness ==
    /\ \A c \in Clients : resp[c].op = "commit_action_plan" /\ resp[c].status_code = 200
    /\ resp["k1"].action_plan = resp["k2"].action_plan
    /\ resp["k1"].action_plan.version = 2
    /\ resp["k1"].action_plan.id \in DOMAIN action_plans
    /\ action_plans[resp["k1"].action_plan.id] = resp["k1"].action_plan

(***************************************************************************)
(* The metrics loop of generate_action_plan with the chunks' contents:     *)
(* each iteration stamps the chunk, counts it and then extracts its        *)
(* content (SpecStream).                                                   *)
(***************************************************************************)

\* Mutant: a chunk without content is passed over before it is stamped and
\* counted.
StreamIterationSkipsEmpty ==
    /\ frame.pc = "calling" /\ frame.op = "generate_action_plan"
    /\ provider # "gemini"
    /\ Len(arrivals) < MaxChunks
    /\ \E d \in Delays, chunk \in Chunks :
          /\ clock' = clock + d
          /\ arrivals' = Append(arrivals, clock')
          /\ frame' =
               IF ~chunk.choices \/ chunk.content = << >> THEN frame
               ELSE IF ~frame.first_chunk_received
               THEN [frame EXCEPT
                       !.ttft = <<Millis(clock', frame.request_start_time)>>,
                       !.first_chunk_received = TRUE,
                       !.last_chunk_time = clock',
                       !.chunk_count = @ + 1]
               ELSE [frame EXCEPT
                       !.chunk_times = Append(@, Millis(clock', frame.last_chunk_time)),
                       !.last_chunk_time = clock',
                       !.chunk_count = @ + 1]
          /\ plan_content' = IF chunk.choices /\ chunk.content # << >>
                             THEN plan_content \o chunk.content ELSE plan_content
    /\ UNCHANGED <<span, disconnected, messages, complexity, svcVars, propVars,
                   bootVars, lookupVars, histVars, token_response, message_texts>>

\* One whole iteration of `for chunk in response`: the time is read, ttft
\* or a gap is recorded, the chunk is counted, and the delta content of its
\* first choice, when there is one and it is not empty, is appended.
StreamIteration ==
    /\ frame.pc = "calling" /\ frame.op = "generate_action_plan"
    /\ provider # "gemini"
    /\ frame.chunk_count < MaxChunks
    /\ \E d \in Delays, chunk \in Chunks :
          /\ clock' = clock + d
          /\ arrivals' = Append(arrivals, clock')
          /\ frame' =
               IF ~frame.first_chunk_received
               THEN [frame EXCEPT
                       !.ttft = <<Millis(clock', frame.request_start_time)>>,
                       !.first_chunk_received = TRUE,
                       !.last_chunk_time = clock',
                       !.chunk_count = @ + 1]
               ELSE [frame EXCEPT
                       !.chunk_times = Append(@, Millis(clock', frame.last_chunk_time)),
                       !.last_chunk_time = clock',
                       !.chunk_count = @ + 1]
          /\ plan_content' = IF chunk.choices /\ chunk.content # << >>
                             THEN plan_content \o chunk.content ELSE plan_content
    /\ UNCHANGED <<span, disconnected, messages, complexity, svcVars, propVars,
                   bootVars, lookupVars, histVars, token_response, message_texts>>

\* One streamed generation on a fresh service, for a request without
\* conversation history: plan_content = "".
InitStream ==
    /\ provider \in Providers \ {"gemini"}
    /\ langfuse = FALSE
    /\ action_plans = << >>
    /\ req = [c \in Clients |-> NoRequest]
    /\ resp = [c \in Clients |-> NoResponse]
    /\ PropIdle
    /\ clock = 0
    /\ arrivals = << >>
    /\ span = NoSpan
    /\ frame = NoFrame
    /\ disconnected = FALSE
    /\ messages \in { m \in CallMessages : Len(m) = 2 }
    /\ complexity = None
    /\ Booted
    /\ LookupIdle
    /\ race = NoRace
    /\ TokensIdle

NextStream ==
    \/ StartGeneration
    \/ StreamIteration
    \/ EndOfStream
    \/ ComputeMetrics
    \/ LLMCallRaises
    \/ TokenCallRaises

SpecStream == InitStream /\ [][NextStream]_vars

\* The clock did not step back between request start and the chunks.
ArrivalsNonDecreasing ==
    \A i \in DOMAIN arrivals :
       (IF i = 1 THEN frame.request_start_time ELSE arrivals[i - 1]) <= arrivals[i]

\* Whole milliseconds from request start to the latest chunk.
LatestChunkMs == Millis(frame.last_chunk_time, frame.request_start_time)

\* C30: the chunks are stamped and counted in arrival order whatever their
\* content, and while the arrival times do not decrease every state of the
\* loop has 0 <= ttft <= time of the latest chunk, max(chunk_count - 1, 0)
\* gaps, each >= 0 and each the time between two successive chunks; at the
\* end ttft <= ttlt and generation_time >= 0.  A stream without a chunk
\* completes with chunk_count = 0, no gap, and ttft, ttlt and
\* generation_time reported as 0.
C30_StreamSampleInvariant ==
    (frame.op = "generate_action_plan" /\ frame.pc # "idle" /\ ArrivalsNonDecreasing) =>
       LET N == Len(arrivals)
       IN  /\ frame.chunk_count = N
           /\ frame.last_chunk_time = IF N = 0 THEN frame.request_start_time ELSE arrivals[N]
           /\ Len(frame.chunk_times) = IF frame.chunk_count >= 1 THEN frame.chunk_count - 1 ELSE 0
           /\ \A i \in DOMAIN frame.chunk_times :
                 /\ frame.chunk_times[i] >= 0
                 /\ frame.chunk_times[i] = Millis(arrivals[i + 1], arrivals[i])
           /\ N = 0 => frame.ttft = << >>
           /\ N > 0 => /\ frame.ttft = <<Millis(arrivals[1], frame.request_start_time)>>
                       /\ 0 <= frame.ttft[1]
                       /\ frame.ttft[1] <= LatestChunkMs
           /\ frame.pc \in {"streamed", "returned"} =>
                 /\ frame.ttlt = <<LatestChunkMs>>
                 /\ OrZero(frame.ttft) <= frame.ttlt[1]
           /\ frame.pc = "returned" =>
                 /\ frame.exc = None
                 /\ frame.generation_time >= 0
                 /\ AttributeValue("ai.chunk_count") = N
                 /\ N = 0 => /\ frame.chunk_times = << >>
                             /\ AttributeValue("ai.ttft") = 0
                             /\ AttributeValue("ai.ttlt") = 0
                             /\ AttributeValue("ai.generation_time") = 0

\* C30 witness: a stream of two chunks without content, 1 ms and 3 ms after
\* request start, has returned: both chunks are counted, one gap of 2 ms is
\* recorded, and nothing was added to plan_content.
C30_Witness ==
    /\ frame.op = "generate_action_plan" /\ frame.pc = "returned"
    /\ ArrivalsNonDecreasing
    /\ Len(arrivals) = 2 /\ frame.chunk_count = 2
    /\ plan_content = << >>
    /\ frame.ttft = <<1>> /\ frame.ttlt = <<3>>
    /\ frame.chunk_times = <<2>>
    /\ frame.generation_time = 2

====
